---- MODULE Spec2Model ----
(***************************************************************************)
(* A model of the rotation-averaging engine of GraphOptim: the IRLS local  *)
(* refiner (irls_rotation_local_refiner.cc), the Lagrange-dual estimator   *)
(* (lagrange_dual_rotation_estimator.cc) and the ADMM L1 solver            *)
(* (l1_solver.h).                                                          *)
(*                                                                         *)
(* Numbers.  A double is an exact fraction <<num, den>> with den > 0, in   *)
(* lowest terms.  Rotations are axis-angle 3-vectors about the x axis, the *)
(* angle counted in ticks of a quarter turn: <<<<a, 1>>, <<0, 1>>,         *)
(* <<0, 1>>>> is the rotation by a ticks.  The product of two such         *)
(* rotations is the rotation by the sum of the angles, so the rotations,   *)
(* residuals, weights and steps of the refiner are computed exactly.  The  *)
(* rotation matrices of whole ticks have integer entries: the Lagrange-    *)
(* dual estimator, whose rotations are whole ticks, works on them.         *)
(***************************************************************************)
EXTENDS Integers, Sequences, FiniteSets, TLC

\* ------------------------------------------------------------------------
\* Bounds of the model
\* ------------------------------------------------------------------------
MaxCalls == 2          \* calls of SolveIRLS / EstimateRotations on one instance
MaxEdges == 2          \* entries the caller puts in view_pairs
MaxIrlsIterations == 2 \* largest max_num_irls_iterations the driver configures
MaxL1Iterations == 2   \* largest max_num_iterations of the L1 solver's driver
MaxThreads == 2        \* largest options_.num_threads of the parallel loop
MaxShrinkageSize == 2  \* largest vec.size() handed to Shrinkage on its own
MaxGraphEdges == 2     \* longest edge list handed to ComputeNormalizedMinGraphCut
MaxDenominator == 1    \* finest rotation (1 / MaxDenominator tick) handed to a call

ViewIds == {1, 2, 3}          \* the image_t values the caller uses
InputAngles == {0, 1}         \* x-axis angles (ticks) of the caller's rotations
Sigmas == {1, 2}              \* irls_loss_parameter_sigma, in ticks
NarrowSigma == CHOOSE s \in Sigmas : \A t \in Sigmas : s <= t
WideSigma == CHOOSE s \in Sigmas : \A t \in Sigmas : s >= t
StepThreshold == 1            \* irls_step_convergence_threshold, in ticks

HalfTurn == 2   \* pi, in ticks

Abs(x) == IF x < 0 THEN -x ELSE x

\* ------------------------------------------------------------------------
\* Exact fractions <<num, den>>, den > 0
\* ------------------------------------------------------------------------
RECURSIVE Gcd(_, _)
Gcd(a, b) == IF b = 0 THEN Abs(a) ELSE Gcd(b, a % b)

\* p <= q for fractions with positive denominators, compared by whole parts
\* and then by the reciprocals of the remainders, without a product.
RECURSIVE FracLeq(_, _)
FracLeq(p, q) ==
  IF p[1] \div p[2] # q[1] \div q[2] THEN p[1] \div p[2] < q[1] \div q[2]
  ELSE IF p[1] % p[2] = 0 THEN TRUE
  ELSE IF q[1] % q[2] = 0 THEN FALSE
  ELSE FracLeq(<<q[2], q[1] % q[2]>>, <<p[2], p[1] % p[2]>>)

FracLess(p, q) == ~FracLeq(q, p)

\* The fraction n / d in lowest terms, d # 0.
Frac(n, d) ==
  LET Reduced(g) ==
        IF d < 0 THEN <<(-n) \div g, (-d) \div g>> ELSE <<n \div g, d \div g>>
  IN  Reduced(Gcd(Abs(n), Abs(d)))

FracOf(n) == <<n, 1>>

\* p + q over the least common denominator.
FracAdd(p, q) ==
  LET Over(g) ==
        Frac(p[1] * (q[2] \div g) + q[1] * (p[2] \div g), (p[2] \div g) * q[2])
  IN  Over(Gcd(p[2], q[2]))

FracNeg(p) == <<-p[1], p[2]>>

FracSub(p, q) == FracAdd(p, FracNeg(q))

\* p * q for fractions in lowest terms: the common factors are taken out
\* before the products, which leaves the result in lowest terms.
FracMul(p, q) ==
  LET Cancelled(g1, g2) ==
        <<(p[1] \div g1) * (q[1] \div g2), (p[2] \div g2) * (q[2] \div g1)>>
  IN  Cancelled(Gcd(Abs(p[1]), q[2]), Gcd(Abs(q[1]), p[2]))

\* p / q, q # 0.
FracDiv(p, q) ==
  FracMul(p, IF q[1] < 0 THEN <<-q[2], -q[1]>> ELSE <<q[2], q[1]>>)

FracAbs(p) == <<Abs(p[1]), p[2]>>

FracMax(p, q) == IF FracLess(p, q) THEN q ELSE p

RECURSIVE FracSum(_)
FracSum(s) == IF s = <<>> THEN <<0, 1>> ELSE FracAdd(Head(s), FracSum(Tail(s)))

\* ------------------------------------------------------------------------
\* Rotation math (geometry/rotation_utils.h, ceres/rotation.h)
\* ------------------------------------------------------------------------
\* The axis-angle vector of the rotation about the x axis by a ticks.
AngleAxis(a) == <<a, <<0, 1>>, <<0, 1>>>>

Zero3 == AngleAxis(<<0, 1>>)

Neg3(v) == <<FracNeg(v[1]), FracNeg(v[2]), FracNeg(v[3])>>

SquaredNorm3(v) ==
  FracSum(<<FracMul(v[1], v[1]), FracMul(v[2], v[2]), FracMul(v[3], v[3])>>)

\* The Euclidean norm of a vector along one coordinate axis.
Norm3(v) == FracSum(<<FracAbs(v[1]), FracAbs(v[2]), FracAbs(v[3])>>)

Identity3 == <<<<1, 0, 0>>, <<0, 1, 0>>, <<0, 0, 1>>>>

\* A function over 1..n as a tuple, and a map as a function record: the values
\* are the same, computed once.
AsTuple(f) == f \o <<>>

AsMap(f) == f @@ <<>>

MatMul3(A, B) ==
  LET Entry(r, c) == A[r][1] * B[1][c] + A[r][2] * B[2][c] + A[r][3] * B[3][c]
  IN  <<<<Entry(1, 1), Entry(1, 2), Entry(1, 3)>>,
        <<Entry(2, 1), Entry(2, 2), Entry(2, 3)>>,
        <<Entry(3, 1), Entry(3, 2), Entry(3, 3)>>>>

Transpose3(A) ==
  <<<<A[1][1], A[2][1], A[3][1]>>,
    <<A[1][2], A[2][2], A[3][2]>>,
    <<A[1][3], A[2][3], A[3][3]>>>>

NegMat3(A) ==
  <<<<-A[1][1], -A[1][2], -A[1][3]>>,
    <<-A[2][1], -A[2][2], -A[2][3]>>,
    <<-A[3][1], -A[3][2], -A[3][3]>>>>

ZeroMat3 == <<<<0, 0, 0>>, <<0, 0, 0>>, <<0, 0, 0>>>>

MatAdd3(A, B) ==
  <<<<A[1][1] + B[1][1], A[1][2] + B[1][2], A[1][3] + B[1][3]>>,
    <<A[2][1] + B[2][1], A[2][2] + B[2][2], A[2][3] + B[2][3]>>,
    <<A[3][1] + B[3][1], A[3][2] + B[3][2], A[3][3] + B[3][3]>>>>

Det3(A) ==
    A[1][1] * (A[2][2] * A[3][3] - A[2][3] * A[3][2])
  - A[1][2] * (A[2][1] * A[3][3] - A[2][3] * A[3][1])
  + A[1][3] * (A[2][1] * A[3][2] - A[2][2] * A[3][1])

\* cos and sin of a whole number of quarter turns.
CosTicks(a) ==
  LET r == a % (2 * HalfTurn)
  IN  IF r = 0 THEN 1 ELSE IF r = HalfTurn THEN -1 ELSE 0

SinTicks(a) == CosTicks(a - HalfTurn \div 2)

\* The whole number a fraction stands for.
WholeTicks(p) == CHOOSE t \in {p[1] \div p[2]} : t * p[2] = p[1]

\* ceres::AngleAxisToRotationMatrix for a rotation about the x axis by a whole
\* number of ticks.
AngleAxisToRotationMatrix(aa) ==
  LET c == CosTicks(WholeTicks(aa[1]))
      s == SinTicks(WholeTicks(aa[1]))
  IN  <<<<1, 0, 0>>, <<0, c, -s>>, <<0, s, c>>>>

\* ceres::RotationMatrixToAngleAxis: the angle is in (-pi, pi].
RotationMatrixToAngleAxis(R) ==
  LET a == CHOOSE t \in (1 - HalfTurn)..HalfTurn :
             AngleAxisToRotationMatrix(AngleAxis(FracOf(t))) = R
  IN  AngleAxis(FracOf(a))

\* The angle a brought into (-pi, pi] by whole turns.
WrapAngle(a) ==
  LET Within(m, turn) == Frac(IF m > turn - m THEN m - turn ELSE m, a[2])
  IN  Within(a[1] % (2 * HalfTurn * a[2]), 2 * HalfTurn * a[2])

\* geometry::MultiplyRotations: the axis-angle of the product of the two
\* rotation matrices.  Both rotate about the x axis, so the product rotates
\* about the x axis by the sum of the two angles, and the conversion back
\* returns that angle in (-pi, pi].
MultiplyRotations(rotation1, rotation2) ==
  AngleAxis(WrapAngle(FracAdd(rotation1[1], rotation2[1])))

\* ------------------------------------------------------------------------
\* Integer and fraction sequences
\* ------------------------------------------------------------------------
RECURSIVE SeqSum(_)
SeqSum(s) == IF s = <<>> THEN 0 ELSE Head(s) + SeqSum(Tail(s))

\* Vectors of fractions.
VecAdd(v, w) == AsTuple([k \in 1..Len(v) |-> FracAdd(v[k], w[k])])

VecSub(v, w) == AsTuple([k \in 1..Len(v) |-> FracSub(v[k], w[k])])

VecScale(c, v) == AsTuple([k \in 1..Len(v) |-> FracMul(c, v[k])])

ZeroVector(n) == AsTuple([k \in 1..n |-> <<0, 1>>])

\* The squared Euclidean norm.
SquaredNorm(v) == FracSum(AsTuple([k \in 1..Len(v) |-> FracMul(v[k], v[k])]))

\* sqrt(r) < sqrt(p) + sqrt(q) for fractions r, p, q >= 0, decided exactly.
SqrtLessThanSum(r, p, q) ==
  LET d == FracSub(r, FracAdd(p, q))
  IN  \/ d[1] < 0
      \/ FracLess(FracMul(d, d), FracMul(FracOf(4), FracMul(p, q)))

\* A dense integer matrix is the tuple of its rows.
NumRows(A) == Len(A)

NumCols(A) == Len(A[1])

\* A * v and A^T * w for a vector of fractions.
MatTimes(A, v) ==
  AsTuple([r \in 1..NumRows(A) |->
     FracSum(AsTuple([c \in 1..NumCols(A) |-> FracMul(FracOf(A[r][c]), v[c])]))])

TransposeTimes(A, w) ==
  AsTuple([c \in 1..NumCols(A) |->
     FracSum(AsTuple([r \in 1..NumRows(A) |-> FracMul(FracOf(A[r][c]), w[r])]))])

\* A^T * A.
Gram(A) ==
  AsTuple([c1 \in 1..NumCols(A) |-> AsTuple([c2 \in 1..NumCols(A) |->
     SeqSum(AsTuple([r \in 1..NumRows(A) |-> A[r][c1] * A[r][c2]]))])])

\* ------------------------------------------------------------------------
\* Vectors of the estimators: flat sequences, three entries per block
\* ------------------------------------------------------------------------
Uninit == "uninit"   \* an entry of a resized Eigen vector that was never written

\* v.segment<3>(3 * k), k counted from 0.
Segment3(v, k) == <<v[3 * k + 1], v[3 * k + 2], v[3 * k + 3]>>

UninitVector(n) == AsTuple([idx \in 1..n |-> Uninit])

\* util/map_util.h FindOrDie: the lookup aborts when the key is missing.
ContainsKey(map, key) == key \in DOMAIN map

EmptyMap == <<>>

\* ------------------------------------------------------------------------
\* rotation_averaging/internal/rotation_estimator_util.h
\* ------------------------------------------------------------------------
kConstantRotationIndex == -1

\* ViewIdToAscentIndex: the view ids in ascending order get 0, 1, 2, ...
ViewIdToAscentIndex(rotations) ==
  AsMap([id \in DOMAIN rotations |->
           Cardinality({other \in DOMAIN rotations : other < id})])

\* A sparse matrix of 3x3 blocks c * I: rows and cols are the scalar sizes,
\* block[e][j] the coefficient c of block row e, block column j.
EmptySparseMatrix == [rows |-> 0, cols |-> 0, block |-> <<>>]

\* SetupLinearSystem: one block row per relative rotation, -I in the column of
\* view 1 and +I in the column of view 2, the constant view's column left out.
\* ok is FALSE when FindOrDie aborts or a triplet falls outside the matrix.
SetupLinearSystem(relative_rotations, num_orientations, view_id_to_index) ==
  LET E == Len(relative_rotations)
      ncols == num_orientations - 1
      Index(id) == view_id_to_index[id] - 1
      InRange(id) ==
        Index(id) = kConstantRotationIndex
          \/ (Index(id) >= 0 /\ Index(id) < ncols)
      Coef(e, j) ==
        (IF Index(relative_rotations[e].second) = j - 1 THEN 1 ELSE 0)
          - (IF Index(relative_rotations[e].first) = j - 1 THEN 1 ELSE 0)
  IN  IF \E e \in 1..E :
           \/ ~ContainsKey(view_id_to_index, relative_rotations[e].first)
           \/ ~ContainsKey(view_id_to_index, relative_rotations[e].second)
      THEN [ok |-> FALSE, matrix |-> EmptySparseMatrix]
      ELSE IF \E e \in 1..E :
                \/ ~InRange(relative_rotations[e].first)
                \/ ~InRange(relative_rotations[e].second)
      THEN [ok |-> FALSE, matrix |-> EmptySparseMatrix]
      ELSE [ok |-> TRUE,
            matrix |-> [rows |-> 3 * E, cols |-> 3 * ncols,
                        block |-> AsTuple([e \in 1..E |->
                                     AsTuple([j \in 1..ncols |-> Coef(e, j)])])]]

\* ------------------------------------------------------------------------
\* math/sparse_cholesky_llt.h on the normal equations of a block matrix.
\* Rows 3e+c of the matrix touch only columns 3j+c, so the system splits
\* into one system per component c, weighted by the rows' own weights.
\* ------------------------------------------------------------------------
\* The weights of component c's rows.
ComponentWeights(weights, E, c) ==
  AsTuple([e \in 1..E |-> weights[3 * (e - 1) + c]])

\* The least common multiple of the denominators of the fractions of s.
RECURSIVE CommonDenominator(_)
CommonDenominator(s) ==
  IF s = <<>> THEN 1
  ELSE LET Joined(rest) == (Head(s)[2] \div Gcd(Head(s)[2], rest)) * rest
       IN  Joined(CommonDenominator(Tail(s)))

\* The weights of one component divided by a common positive factor that
\* leaves whole numbers without a common divisor.  A^T W A is positive definite
\* for the scaled weights exactly when it is for w, and the solution of the
\* normal equations is the same; the entries of the scaled system stay within
\* the integers where those of A^T W A, over the product of the weights'
\* denominators, do not.
ScaledWeights(w) ==
  LET positive == {e \in 1..Len(w) : w[e][1] # 0}
      Whole(ratios) ==
        AsTuple([e \in 1..Len(w) |->
           FracMul(ratios[e], FracOf(CommonDenominator(ratios)))])
      Relative(unit) ==
        Whole(AsTuple([e \in 1..Len(w) |-> FracDiv(w[e], w[unit])]))
  IN  IF positive = {} THEN w
      ELSE Relative(CHOOSE e \in positive : \A other \in positive : e <= other)

\* A^T * diag(w) * A for one component: an n x n matrix of fractions.
NormalMatrix(A, w) ==
  LET n == A.cols \div 3
      E == A.rows \div 3
  IN  AsTuple([j1 \in 1..n |-> AsTuple([j2 \in 1..n |->
         FracSum(AsTuple([e \in 1..E |->
                    FracMul(w[e], FracOf(A.block[e][j1] * A.block[e][j2]))]))])])

\* A^T * diag(w) * r for one component.
NormalRhs(A, w, residual, c) ==
  LET n == A.cols \div 3
      E == A.rows \div 3
  IN  AsTuple([j \in 1..n |->
         FracSum(AsTuple([e \in 1..E |->
                    FracMul(FracMul(w[e], FracOf(A.block[e][j])),
                            residual[3 * (e - 1) + c])]))])

Det2(M) == M[1][1] * M[2][2] - M[1][2] * M[2][1]

\* The LLt factorization succeeds on a symmetric positive definite matrix
\* (leading minors positive); the model has at most two unknowns per component.
IsPositiveDefinite(M) ==
  CASE Len(M) = 0 -> TRUE
    [] Len(M) = 1 -> M[1][1] > 0
    [] OTHER -> M[1][1] > 0 /\ Det2(M) > 0

\* The second pivot of the factorization M = L * L^T of a 2 x 2 matrix of
\* fractions: M22 - M21 * M21 / M11.
SecondPivot(M) ==
  FracSub(M[2][2], FracMul(M[2][1], FracDiv(M[2][1], M[1][1])))

\* linear_solver.Factorize(M) on a matrix of fractions: Info() is Success when
\* every pivot is positive (M is symmetric positive definite); the model has
\* at most two unknowns per component.
LLtFactorizes(M) ==
  CASE Len(M) = 0 -> TRUE
    [] Len(M) = 1 -> M[1][1][1] > 0
    [] OTHER -> M[1][1][1] > 0 /\ SecondPivot(M)[1] > 0

\* The two substitutions of Solve for two unknowns, on the pivots.
Substituted(M, b, x2) == <<FracDiv(FracSub(b[1], FracMul(M[2][1], x2)), M[1][1]), x2>>

\* linear_solver.Solve(b) after Factorize(M): M^-1 * b.
LLtSolve(M, b) ==
  CASE Len(M) = 0 -> <<>>
    [] Len(M) = 1 -> <<FracDiv(b[1], M[1][1])>>
    [] OTHER ->
         Substituted(M, b,
           FracDiv(FracSub(b[2], FracMul(FracDiv(M[2][1], M[1][1]), b[1])),
                   SecondPivot(M)))

\* M^-1 * b for an integer matrix and a vector of fractions.
LLtSolveExact(M, b) ==
  CASE Len(M) = 1 -> <<FracMul(b[1], Frac(1, M[1][1]))>>
    [] OTHER ->
         <<FracMul(FracSub(FracMul(b[1], FracOf(M[2][2])),
                           FracMul(FracOf(M[1][2]), b[2])), Frac(1, Det2(M))),
           FracMul(FracSub(FracMul(FracOf(M[1][1]), b[2]),
                           FracMul(FracOf(M[2][1]), b[1])), Frac(1, Det2(M)))>>

\* Whether Factorize(A^T W A) succeeds for every component.
FactorizeSucceeds(A, weights) ==
  \A c \in 1..3 :
    LLtFactorizes(
      NormalMatrix(A, ScaledWeights(ComponentWeights(weights, A.rows \div 3, c))))

\* linear_solver.Solve(A^T W r): the flat step vector, 3 entries per column.
SolveNormalEquations(A, weights, residual) ==
  LET Solved(w, c) == LLtSolve(NormalMatrix(A, w), NormalRhs(A, w, residual, c))
      X(c) == Solved(ScaledWeights(ComponentWeights(weights, A.rows \div 3, c)), c)
      Flat(x) == AsTuple([idx \in 1..A.cols |->
                            x[((idx - 1) % 3) + 1][((idx - 1) \div 3) + 1]])
  IN  Flat(<<X(1), X(2), X(3)>>)

\* ------------------------------------------------------------------------
\* State
\* ------------------------------------------------------------------------
VARIABLES
  view_pairs,        \* the caller's relative rotations, in the order the map is iterated
  global_rotations,  \* the caller's view id -> axis-angle map
  refiner,           \* the IRLSRotationLocalRefiner instance (its fields)
  irls_pc,           \* "new", "idle" (constructed, no call running), "loop", "aborted"
  irls_i,            \* the loop variable i of SolveIRLS
  irls_ret,          \* what the last SolveIRLS returned: "none", "true", "false"
  weights,           \* the weights array of the running (or last) SolveIRLS
  irls_log,          \* the LOG lines of the running (or last) SolveIRLS
  irls_hist,         \* history: calls made, rotations on entry, last update,
                     \* the residual the weights came from, the solver's reports
  fresh              \* the same call run on a freshly constructed refiner

VARIABLES
  estimator,         \* the LagrangeDualRotationEstimator instance (its fields)
  ld_pc,             \* "new", "idle", "returned", "aborted", "crashed"
  ld_ret,            \* what EstimateRotations returned: "none", "true", "false"
  ld_hist,           \* history: calls made, rotations on entry, the backend's run
  ld_bound           \* the last ComputeErrorBound: its locals, log and result

callerVars == <<view_pairs, global_rotations>>
irlsVars == <<refiner, irls_pc, irls_i, irls_ret, weights, irls_log, irls_hist, fresh>>
VARIABLES
  l1_solver,         \* the L1Solver instance (its fields)
  l1_pc,             \* "new", "idle", "loop", "returned", "aborted"
  l1_call,           \* the arguments and locals of Solve: rhs, x, z, u, z_old, i
  l1_log,            \* the lines Solve logged, one per completed iteration
  l1_hist            \* history: the x on entry, the solver's reports

VARIABLES
  omp_pc,            \* the parallel weight loop: "new", "parallel", "done"
  omp_in,            \* what the loop reads: the residual vector, sigma, the sizes
  omp_todo,          \* the iterations k no thread has started
  omp_threads,       \* per thread: its iteration k, its progress, its private w
  omp_weights,       \* the shared weights array
  omp_access,        \* every access to shared data so far, by iteration
  omp_overlapped     \* history: two threads were inside iterations at once

VARIABLES
  shr_pc,            \* Shrinkage on its own: "new", "called", "returned"
  shr_in,            \* its arguments vec and kappa
  shr_out            \* the vector it returned

shrVars == <<shr_pc, shr_in, shr_out>>

VARIABLES
  gc_pc,             \* ComputeNormalizedMinGraphCut: "new", "constructed",
                     \* "returned", "aborted"
  gc_in,             \* its arguments edges, weights and num_parts
  gc_graph,          \* the GraclusGraph it constructed
  gc_cut_labels,     \* cut_labels as the partitioner filled it
  gc_labels          \* the map it returned

gcVars == <<gc_pc, gc_in, gc_graph, gc_cut_labels, gc_labels>>
ompVars == <<omp_pc, omp_in, omp_todo, omp_threads, omp_weights, omp_access,
             omp_overlapped>>
ldVars == <<estimator, ld_pc, ld_ret, ld_hist, ld_bound>>
l1Vars == <<l1_solver, l1_pc, l1_call, l1_log, l1_hist>>

\* ------------------------------------------------------------------------
\* IRLSRotationLocalRefiner (irls_rotation_local_refiner.cc)
\* ------------------------------------------------------------------------
\* The configurations the driver constructs a refiner with: a single pass with
\* the wide loss, and the full iteration budget with the narrow one.
IRLSOptions ==
  {[max_num_irls_iterations |-> 1,
    irls_loss_parameter_sigma |-> WideSigma,
    irls_step_convergence_threshold |-> StepThreshold],
   [max_num_irls_iterations |-> MaxIrlsIterations,
    irls_loss_parameter_sigma |-> NarrowSigma,
    irls_step_convergence_threshold |-> StepThreshold]}

\* The constructor: the two vectors are resized, not filled.
NewRefiner(num_orientations, num_edges, options) ==
  [options_ |-> options,
   view_id_to_index_ |-> EmptyMap,
   sparse_matrix_ |-> EmptySparseMatrix,
   tangent_space_step_ |-> UninitVector((num_orientations - 1) * 3),
   tangent_space_residual_ |-> UninitVector(num_edges * 3)]

\* ComputeResiduals: R_err = R2^t * R_12 * R1 for every relative rotation, in the
\* order of the iteration, written to segment 3 * rotation_error_index.  The
\* loop aborts at the first pair for which FindOrDie finds no rotation or whose
\* segment lies outside the vector: ok is FALSE then, and the segments of the
\* pairs before it are written.
ComputeResiduals(relative_rotations, rotations, tangent_space_residual) ==
  LET E == Len(relative_rotations)
      Err(e) ==
        MultiplyRotations(Neg3(rotations[relative_rotations[e].second]),
          MultiplyRotations(relative_rotations[e].rotation_2,
                            rotations[relative_rotations[e].first]))
      failing == {e \in 1..E :
                    \/ ~ContainsKey(rotations, relative_rotations[e].first)
                    \/ ~ContainsKey(rotations, relative_rotations[e].second)
                    \/ 3 * e > Len(tangent_space_residual)}
      Written(errs) ==
        AsTuple([idx \in 1..Len(tangent_space_residual) |->
                   IF idx <= 3 * Len(errs)
                   THEN errs[((idx - 1) \div 3) + 1][((idx - 1) % 3) + 1]
                   ELSE tangent_space_residual[idx]])
      Looped(done) ==
        [ok |-> failing = {},
         residual |-> Written(AsTuple([e \in 1..done |-> Err(e)]))]
  IN  Looped(IF failing = {} THEN E
             ELSE (CHOOSE e \in failing : \A other \in failing : e <= other) - 1)

\* A weight that grows with the error: tmp * tmp / sigma.
ComputeWeightGrowing(e_sq, sigma) ==
  LET tmp == FracAdd(e_sq, FracOf(sigma * sigma))
  IN  FracDiv(FracMul(tmp, tmp), FracOf(sigma))

\* A weight that vanishes with the error: e_sq / (tmp * tmp).
ComputeWeightVanishing(e_sq, sigma) ==
  LET tmp == FracAdd(e_sq, FracOf(sigma * sigma))
  IN  FracDiv(e_sq, FracMul(tmp, tmp))

\* The weight of one error term: w = sigma / (tmp * tmp), tmp = e_sq + sigma^2.
ComputeWeight(e_sq, sigma) ==
  LET W(tmp) == FracDiv(FracOf(sigma), FracMul(tmp, tmp))
  IN  W(FracAdd(e_sq, FracOf(sigma * sigma)))

\* The loop over the edges: weights.segment<3>(3 * k).setConstant(w).
ComputeWeights(tangent_space_residual, num_edges, sigma) ==
  LET SetConstant(w) ==
        AsTuple([idx \in 1..(3 * num_edges) |-> w[((idx - 1) \div 3) + 1]])
  IN  SetConstant(AsTuple([k \in 1..num_edges |->
        ComputeWeight(SquaredNorm3(Segment3(tangent_space_residual, k - 1)),
                      sigma)]))

\* A segment that starts at k instead of 3 * k.
WeightIndexOverlapping(k, c) == k + c

\* The index of element c of segment<3>(3 * k), counted from 0.
WeightIndex(k, c) == 3 * k + c

\* One access of iteration k of the parallel loop to shared data.
Access(k, kind, array, index) ==
  [iter |-> k, kind |-> kind, array |-> array, index |-> index]

\* Lines 86-88 of iteration k, on the thread's private e_sq, tmp and w: the
\* weight and the shared data read for it.
WeightOfIteration(k, tangent_space_residual, sigma) ==
  LET segment == <<tangent_space_residual[WeightIndex(k, 0) + 1],
                   tangent_space_residual[WeightIndex(k, 1) + 1],
                   tangent_space_residual[WeightIndex(k, 2) + 1]>>
  IN  [w |-> ComputeWeight(SquaredNorm3(segment), sigma),
       accesses |->
         {Access(k, "read", "tangent_space_residual_", WeightIndex(k, c)) :
            c \in 0..2} \cup {Access(k, "read", "sigma", 0)}]

\* A thread of the parallel loop that is between iterations.
IdleThread == [k |-> -1, written |-> 0, w |-> <<0, 1>>]

\* The update without the test for the constant view: that view takes the
\* step of the first free view.
UpdatedRotationNoSkip(view_id_to_index, tangent_space_step, rotations, id) ==
  LET view_index == view_id_to_index[id] - 1
      segment == IF view_index = kConstantRotationIndex THEN 0 ELSE view_index
  IN  IF 3 * segment + 3 > Len(tangent_space_step)
      THEN rotations[id]
      ELSE MultiplyRotations(rotations[id],
                             Segment3(tangent_space_step, segment))

\* UpdateGlobalRotations, one view: the constant view is skipped.
UpdatedRotation(view_id_to_index, tangent_space_step, rotations, id) ==
  LET view_index == view_id_to_index[id] - 1
  IN  IF view_index = kConstantRotationIndex
      THEN rotations[id]
      ELSE MultiplyRotations(rotations[id],
                             Segment3(tangent_space_step, view_index))

\* Whether UpdateGlobalRotations aborts at view id: FindOrDie finds no index,
\* or the segment lies outside the step vector.
UpdateDiesAt(view_id_to_index, tangent_space_step, id) ==
  \/ ~ContainsKey(view_id_to_index, id)
  \/ LET view_index == view_id_to_index[id] - 1
     IN  /\ view_index # kConstantRotationIndex
         /\ (view_index < 0 \/ 3 * view_index + 3 > Len(tangent_space_step))

UpdateGlobalRotations(view_id_to_index, tangent_space_step, rotations) ==
  AsMap([id \in DOMAIN rotations |->
     UpdatedRotation(view_id_to_index, tangent_space_step, rotations, id)])

\* delta_V / num_vertices; <<0, 0>> is the NaN of 0.0 / 0.
Average(delta_V, num_vertices) ==
  IF num_vertices = 0 THEN <<0, 0>>
  ELSE FracDiv(delta_V, FracOf(num_vertices))

\* The sum of the norms divided by one more than the number of segments.
ComputeAverageStepSizeOverViews(tangent_space_step) ==
  LET num_vertices == Len(tangent_space_step) \div 3
  IN  Average(FracSum(AsTuple([k \in 1..num_vertices |->
                                 Norm3(Segment3(tangent_space_step, k - 1))])),
              num_vertices + 1)

\* ComputeAverageStepSize: delta_V / num_vertices.
ComputeAverageStepSize(tangent_space_step) ==
  LET num_vertices == Len(tangent_space_step) \div 3
  IN  Average(FracSum(AsTuple([k \in 1..num_vertices |->
                                 Norm3(Segment3(tangent_space_step, k - 1))])),
              num_vertices)

\* avg_step_size < irls_step_convergence_threshold (false for a NaN).
StepBelowThreshold(avg_step_size, threshold) ==
  /\ avg_step_size[2] > 0
  /\ avg_step_size[1] < threshold * avg_step_size[2]

\* A loop that runs while i <= max_num_irls_iterations.
LoopContinuesInclusive(i, options) == i <= options.max_num_irls_iterations

\* The loop condition i < max_num_irls_iterations.
LoopContinues(i, options) == i < options.max_num_irls_iterations

ErrorLine(operation) == [kind |-> "error", operation |-> operation]

IterLine(i, avg_step_size) == [kind |-> "iter", i |-> i, avg |-> avg_step_size]

\* One call the refiner makes, with the status it ended with.
Call(op, ok) == [op |-> op, ok |-> ok]

\* An entry that builds the index map whether or not one is there.
IndexMapRebuilt(self, rotations) == ViewIdToAscentIndex(rotations)

\* Lines 51-53: view_id_to_index_ is built only when it is empty.
IndexMapInUse(self, rotations) ==
  IF DOMAIN self.view_id_to_index_ = {}
  THEN ViewIdToAscentIndex(rotations)
  ELSE self.view_id_to_index_

\* SetInitTangentSpaceStep(tangent_space_step).
SetInitTangentSpaceStep(self, tangent_space_step) ==
  [self EXCEPT !.tangent_space_step_ = tangent_space_step]

\* SetViewIdToIndex(view_id_to_index).
SetViewIdToIndex(self, view_id_to_index) ==
  [self EXCEPT !.view_id_to_index_ = view_id_to_index]

\* SetSparseMatrix(sparse_matrix).
SetSparseMatrix(self, sparse_matrix) ==
  [self EXCEPT !.sparse_matrix_ = sparse_matrix]

\* SolveIRLS up to the loop (lines 45-75).  The result: pc "aborted" (a CHECK
\* or an assertion failed), "idle" with ret "false" (AnalyzePattern failed),
\* or "loop".
SolveIRLSEntry(self, relative_rotations, rotations, analyze_ok) ==
  LET num_edges == Len(relative_rotations)
      map == IndexMapInUse(self, rotations)
      setup == SetupLinearSystem(relative_rotations,
                                 Cardinality(DOMAIN rotations), map)
      built == (IF DOMAIN self.view_id_to_index_ = {}
                THEN <<Call("ViewIdToAscentIndex", TRUE)>> ELSE <<>>)
                 \o (IF self.sparse_matrix_.rows = 0
                     THEN <<Call("SetupLinearSystem", setup.ok)>> ELSE <<>>)
      mat == IF self.sparse_matrix_.rows = 0
             THEN setup.matrix
             ELSE self.sparse_matrix_
      s1 == [self EXCEPT !.view_id_to_index_ = map]
      s2 == [s1 EXCEPT !.sparse_matrix_ = mat]
      res == ComputeResiduals(relative_rotations, rotations,
                              self.tangent_space_residual_)
  IN  IF DOMAIN rotations = {} \/ num_edges = 0
      THEN [pc |-> "aborted", self |-> self, ret |-> "none", log |-> <<>>,
            calls |-> <<>>]
      ELSE IF self.sparse_matrix_.rows = 0 /\ ~setup.ok
      THEN [pc |-> "aborted", self |-> s1, ret |-> "none", log |-> <<>>,
            calls |-> built]
      ELSE IF ~analyze_ok
      THEN [pc |-> "idle", self |-> s2, ret |-> "false",
            log |-> <<ErrorLine("AnalyzePattern")>>,
            calls |-> built \o <<Call("AnalyzePattern", FALSE)>>]
      ELSE IF ~res.ok
      THEN [pc |-> "aborted",
            self |-> [s2 EXCEPT !.tangent_space_residual_ = res.residual],
            ret |-> "none", log |-> <<>>,
            calls |-> built \o <<Call("AnalyzePattern", TRUE),
                                 Call("ComputeResiduals", FALSE)>>]
      ELSE [pc |-> "loop",
            self |-> [s2 EXCEPT !.tangent_space_residual_ = res.residual],
            ret |-> "none", log |-> <<>>,
            calls |-> built \o <<Call("AnalyzePattern", TRUE),
                                 Call("ComputeResiduals", TRUE)>>]

\* Lines 82-106 of one pass of the loop: the weights, Factorize and Solve.
\* how is "mismatch" when the sizes of a segment or of a matrix product do not
\* agree (Eigen's assertion), "factorize" or "solve" when the solver reported
\* failure, "ok" otherwise.
IterationSolve(self, relative_rotations, factorize_ok, solve_ok) ==
  LET num_edges == Len(relative_rotations)
      A == self.sparse_matrix_
      residual == self.tangent_space_residual_
      Weighted(w) ==
        IF A.rows # 3 * num_edges
        THEN [how |-> "mismatch", weights |-> w,
              step |-> self.tangent_space_step_, calls |-> <<>>]
        ELSE IF ~(factorize_ok /\ FactorizeSucceeds(A, w))
        THEN [how |-> "factorize", weights |-> w,
              step |-> self.tangent_space_step_,
              calls |-> <<Call("Factorize", FALSE)>>]
        ELSE IF Len(residual) # 3 * num_edges
        THEN [how |-> "mismatch", weights |-> w,
              step |-> self.tangent_space_step_,
              calls |-> <<Call("Factorize", TRUE)>>]
        ELSE IF ~solve_ok
        THEN [how |-> "solve", weights |-> w, step |-> UninitVector(A.cols),
              calls |-> <<Call("Factorize", TRUE), Call("Solve", FALSE)>>]
        ELSE [how |-> "ok", weights |-> w,
              step |-> SolveNormalEquations(A, w, residual),
              calls |-> <<Call("Factorize", TRUE), Call("Solve", TRUE)>>]
  IN  IF 3 * num_edges > Len(residual)
      THEN [how |-> "mismatch", weights |-> <<>>,
            step |-> self.tangent_space_step_, calls |-> <<>>]
      ELSE Weighted(ComputeWeights(residual, num_edges,
                                   self.options_.irls_loss_parameter_sigma))

\* Lines 108-120 of one pass: the update of the rotations, the residuals, the
\* average step and the convergence test.  how is "die" when
\* UpdateGlobalRotations aborts, "break" when the step is below the threshold,
\* "next" when the loop goes on.
IterationUpdate(self, relative_rotations, rotations, i, step) ==
  LET Measured(updated, res, avg) ==
        [self |-> [self EXCEPT !.tangent_space_step_ = step,
                               !.tangent_space_residual_ = res.residual],
         rotations |-> updated,
         log |-> <<IterLine(i, avg)>>,
         calls |-> <<Call("UpdateGlobalRotations", TRUE),
                     Call("ComputeResiduals", TRUE)>>,
         how |-> IF StepBelowThreshold(
                      avg, self.options_.irls_step_convergence_threshold)
                 THEN "break" ELSE "next"]
      Updated(updated) ==
        Measured(updated,
                 ComputeResiduals(relative_rotations, updated,
                                  self.tangent_space_residual_),
                 ComputeAverageStepSize(step))
  IN  IF \E id \in DOMAIN rotations :
           UpdateDiesAt(self.view_id_to_index_, step, id)
      THEN [self |-> [self EXCEPT !.tangent_space_step_ = step],
            rotations |-> rotations, log |-> <<>>, how |-> "die",
            calls |-> <<Call("UpdateGlobalRotations", FALSE)>>]
      ELSE Updated(UpdateGlobalRotations(self.view_id_to_index_, step, rotations))

\* The body of the loop taken in the other order: the rotations are updated
\* with the step before the solver's status is looked at.
SolveIRLSIterationUpdateFirst(self, relative_rotations, rotations, i, factorize_ok, solve_ok) ==
  LET s == IterationSolve(self, relative_rotations, TRUE, TRUE)
      u == IterationUpdate(self, relative_rotations, rotations, i, s.step)
      t == IterationSolve(self, relative_rotations, factorize_ok, solve_ok)
  IN  IF s.how # "ok"
      THEN [self |-> self, rotations |-> rotations, weights |-> s.weights,
            log |-> IF s.how = "factorize"
                    THEN <<ErrorLine("Factorize")>> ELSE <<>>,
            how |-> s.how, calls |-> s.calls]
      ELSE IF t.how # "ok"
      THEN [self |-> u.self, rotations |-> u.rotations, weights |-> t.weights,
            log |-> <<ErrorLine(IF t.how = "factorize"
                                THEN "Factorize" ELSE "Solve")>>,
            how |-> t.how, calls |-> u.calls \o t.calls]
      ELSE [u EXCEPT !.calls = @ \o s.calls] @@ [weights |-> s.weights]

\* One pass of the loop body (lines 82-120) with i < max_num_irls_iterations.
\* The result names how the pass ended:
\*   "mismatch"  sizes do not agree (Eigen's assertion): the process aborts
\*   "factorize" / "solve"  the solver reported failure: return false
\*   "die"       UpdateGlobalRotations aborted
\*   "break"     the step was below the threshold
\*   "next"      the loop goes on
SolveIRLSIteration(self, relative_rotations, rotations, i, factorize_ok, solve_ok) ==
  LET Solved(s) ==
        CASE s.how = "mismatch" ->
               [self |-> self, rotations |-> rotations, weights |-> s.weights,
                log |-> <<>>, how |-> "mismatch", calls |-> s.calls]
          [] s.how = "factorize" ->
               [self |-> self, rotations |-> rotations, weights |-> s.weights,
                log |-> <<ErrorLine("Factorize")>>, how |-> "factorize",
                calls |-> s.calls]
          [] s.how = "solve" ->
               [self |-> [self EXCEPT !.tangent_space_step_ = s.step],
                rotations |-> rotations, weights |-> s.weights,
                log |-> <<ErrorLine("Solve")>>, how |-> "solve",
                calls |-> s.calls]
          [] OTHER ->
               [IterationUpdate(self, relative_rotations, rotations, i, s.step)
                  EXCEPT !.calls = s.calls \o @]
                 @@ [weights |-> s.weights]
  IN  Solved(IterationSolve(self, relative_rotations, factorize_ok, solve_ok))

\* ------------------------------------------------------------------------
\* LagrangeDualRotationEstimator (lagrange_dual_rotation_estimator.cc)
\* ------------------------------------------------------------------------
SupportedSolverTypes == {"RBR_BCM", "RANK_DEFICIENT_BCM", "RIEMANNIAN_STAIRCASE"}

\* The solver types the driver configures: a supported one and one outside
\* the switch of CreateSDPSolver.
SolverTypes == {"RBR_BCM", "UNSUPPORTED"}

\* alpha_max_ is held as its value and the two numbers it is computed from;
\* lambda2 is "0.0" or the eigenvalue the eigensolver returned.  ZeroBound is
\* the double 0.0, NaNBound a NaN.
ZeroBound == [value |-> "0.0", lambda2 |-> "0.0", max_degree |-> 0]

NaNBound == [value |-> "nan", lambda2 |-> "0.0", max_degree |-> 0]

\* 2 * asin(sqrt(0.25 + lambda2 / (2.0 * max_degree)) - 0.5): with
\* max_degree = 0 the quotient is 0.0 / 0 or an infinity and the result a NaN;
\* with lambda2 = 0.0 it is 2 * asin(0) = 0.0.
ErrorBound(lambda2, max_degree) ==
  IF max_degree = 0 THEN NaNBound
  ELSE IF lambda2 = "0.0" THEN ZeroBound
  ELSE [value |-> "2 * asin(sqrt(0.25 + lambda2 / (2.0 * max_degree)) - 0.5)",
        lambda2 |-> lambda2, max_degree |-> max_degree]

\* eigs(&op, nev, ncv): the number of eigenvalues asked for and the dimension
\* of the Krylov subspace.
nev == 2

ncv == 5

\* Spectra::SymEigsSolver's constructor on an n x n matrix throws
\* std::invalid_argument unless 1 <= nev <= n - 1 and nev < ncv <= n.
SymEigsSolverAccepts(n) == 1 <= nev /\ nev <= n - 1 /\ nev < ncv /\ ncv <= n

\* What the eigensolver can do on an n x n matrix: its constructor throws, or
\* eigs.info() is SUCCESSFUL or not after eigs.compute().
EigsOutcomes(n) ==
  IF SymEigsSolverAccepts(n) THEN {"SUCCESSFUL", "NOT_CONVERGING"}
  ELSE {"invalid_argument"}

\* The constructor: R_ is a dim * N square sparse matrix without entries,
\* held as N x N blocks.
NewEstimator(N, dim, options) ==
  [options_ |-> options,
   images_num_ |-> N,
   dim_ |-> dim,
   view_id_to_index_ |-> EmptyMap,
   R_ |-> [size |-> dim * N,
           block |-> AsTuple([a \in 1..N |-> AsTuple([b \in 1..N |-> ZeroMat3])])],
   Y_ |-> <<>>,
   alpha_max_ |-> ZeroBound]

\* LagrangeDualRotationEstimator::SetViewIdToIndex(view_id_to_index).
LagrangeDualSetViewIdToIndex(self, view_id_to_index) ==
  [self EXCEPT !.view_id_to_index_ = view_id_to_index]

\* SetRAOption(options).
SetRAOption(self, options) == [self EXCEPT !.options_ = options]

\* view_id_to_index_[id] of an unordered_map: a missing key is inserted with
\* the value 0.
IndexOrInsert(view_id_to_index, id) ==
  IF ContainsKey(view_id_to_index, id) THEN view_id_to_index[id] ELSE 0

\* The map after operator[] was applied to every id of ids.
WithInserted(view_id_to_index, ids) ==
  AsMap([id \in DOMAIN view_id_to_index \cup ids |->
           IndexOrInsert(view_id_to_index, id)])

RECURSIVE SumMat3(_)
SumMat3(ms) ==
  IF ms = <<>> THEN ZeroMat3 ELSE MatAdd3(Head(ms), SumMat3(Tail(ms)))

\* adj_edges[a] after the loop over the pairs with indices is[e], js[e]:
\* adj_edges[i].push_back(j); adj_edges[j].push_back(i).
RECURSIVE Neighbours(_, _, _)
Neighbours(a, is, js) ==
  IF is = <<>> THEN <<>>
  ELSE (IF Head(is) = a THEN <<Head(js)>> ELSE <<>>)
         \o (IF Head(js) = a THEN <<Head(is)>> ELSE <<>>)
         \o Neighbours(a, Tail(is), Tail(js))

\* FillinRelativeGraph: for the pair with indices i, j the triplets put
\* R_ij^T in block (i, j) and R_ij in block (j, i); setFromTriplets adds up the
\* triplets that fall on the same entry.  ok is FALSE when a triplet lies
\* outside the matrix (Eigen's assertion).
FillinRelativeGraph(relative_rotations, view_id_to_index, N) ==
  LET E == Len(relative_rotations)
      ids == {relative_rotations[e].first : e \in 1..E}
               \cup {relative_rotations[e].second : e \in 1..E}
      map == WithInserted(view_id_to_index, ids)
      is == AsTuple([e \in 1..E |-> map[relative_rotations[e].first]])
      js == AsTuple([e \in 1..E |-> map[relative_rotations[e].second]])
      R_ij(e) == AngleAxisToRotationMatrix(relative_rotations[e].rotation_2)
      Triplets(e, a, b) ==
        MatAdd3(IF is[e] = a /\ js[e] = b THEN Transpose3(R_ij(e)) ELSE ZeroMat3,
                IF js[e] = a /\ is[e] = b THEN R_ij(e) ELSE ZeroMat3)
      Block(a, b) == SumMat3(AsTuple([e \in 1..E |-> Triplets(e, a, b)]))
      touched == {is[e] : e \in 1..E} \cup {js[e] : e \in 1..E}
  IN  [ok |-> \A k \in touched : k >= 0 /\ k < N,
       map |-> map,
       block |-> AsTuple([a \in 1..N |->
                    AsTuple([b \in 1..N |-> Block(a - 1, b - 1)])]),
       adj_edges |-> AsMap([a \in touched |-> Neighbours(a, is, js)])]

NullSolver == [type |-> "nullptr", n |-> 0, dim |-> 0]

\* CreateSDPSolver: a backend for the three supported types, nullptr otherwise.
CreateSDPSolver(n, dim, options) ==
  IF options.solver_type \in SupportedSolverTypes
  THEN [type |-> options.solver_type, n |-> n, dim |-> dim]
  ELSE NullSolver

\* c * A for a sign c.
Scale3(c, A) == IF c < 0 THEN NegMat3(A) ELSE A

SolutionAngles == {0, 1}

\* solver->GetSolution(): a 3 x 3n matrix Y, held as n blocks of 3 x 3, every
\* block orthogonal.  The backends return some feasible point of the
\* relaxation; here the blocks are plus or minus the transposed rotations of
\* the angles in SolutionAngles, the same angle for every view when there are
\* more views than ViewIds has.
SDPSolutions(n) ==
  {AsTuple([i \in 1..n |->
      Scale3(c, Transpose3(AngleAxisToRotationMatrix(AngleAxis(FracOf(f[i])))))]) :
     c \in {1, -1},
     f \in {g \in [1..n -> SolutionAngles] :
              n > Cardinality(ViewIds) => \A i \in 1..n : g[i] = g[n]}}

\* A retrieval that takes the block of Y without transposing it.
RetrievedMatrixUntransposed(Y, i) ==
  LET R == Y[i + 1]
  IN  IF Det3(R) < 0 THEN NegMat3(R) ELSE R

\* The matrix RetrieveRotations hands to the conversion for the view with
\* index i: R = Y.block(0, 3 * i, 3, 3).transpose(); if (det < 0) R = -R.
RetrievedMatrix(Y, i) ==
  LET R == Transpose3(Y[i + 1])
  IN  IF Det3(R) < 0 THEN NegMat3(R) ELSE R

\* The body of the loop of RetrieveRotations for the view with index i.
RetrievedRotation(Y, i) == RotationMatrixToAngleAxis(RetrievedMatrix(Y, i))

\* Y.block(0, 3 * i, 3, 3) lies inside Y.
BlockInRange(Y, i) == i >= 0 /\ i < Len(Y)

\* RetrieveRotations: every entry of global_rotations is written from the
\* block of its index.  ok is FALSE when a block lies outside Y.
RetrieveRotations(Y, rotations, view_id_to_index) ==
  LET map == WithInserted(view_id_to_index, DOMAIN rotations)
      ok == \A id \in DOMAIN rotations : BlockInRange(Y, map[id])
  IN  [ok |-> ok,
       map |-> map,
       converted |-> IF ok
                     THEN AsMap([id \in DOMAIN rotations |->
                                   RetrievedMatrix(Y, map[id])])
                     ELSE EmptyMap,
       rotations |-> IF ok
                     THEN AsMap([id \in DOMAIN rotations |->
                                   RetrievedRotation(Y, map[id])])
                     ELSE rotations]

\* The dense indices of the endpoints of the pairs, looked up with
\* view_id_to_index_[id].
EndpointIndices(relative_rotations, view_id_to_index) ==
  LET E == Len(relative_rotations)
  IN  [first |-> AsTuple([e \in 1..E |->
                    IndexOrInsert(view_id_to_index, relative_rotations[e].first)]),
       second |-> AsTuple([e \in 1..E |->
                    IndexOrInsert(view_id_to_index, relative_rotations[e].second)])]

\* The first loop of ComputeErrorBound: degrees[i]++; degrees[j]++ for every
\* pair.  Entry k + 1 is degrees[k].
Degrees(is, js, N) ==
  AsTuple([k \in 1..N |->
     Cardinality({e \in 1..Len(is) : is[e] = k - 1})
       + Cardinality({e \in 1..Len(js) : js[e] = k - 1})])

\* A after setFromTriplets: every pair adds 1 at (i, j) and 1 at (j, i).
AdjacencyMatrix(is, js, N) ==
  AsTuple([a \in 1..N |-> AsTuple([b \in 1..N |->
     Cardinality({e \in 1..Len(is) : is[e] = a - 1 /\ js[e] = b - 1})
       + Cardinality({e \in 1..Len(is) : js[e] = a - 1 /\ is[e] = b - 1})])])

\* D after setFromTriplets: every pair adds degrees[i] at (i, i) and
\* degrees[j] at (j, j); triplets on the same entry are summed.
DegreeMatrix(is, js, degrees, N) ==
  AsTuple([a \in 1..N |-> AsTuple([b \in 1..N |->
     IF a # b THEN 0
     ELSE degrees[a] * Cardinality({e \in 1..Len(is) : is[e] = a - 1})
            + degrees[a] * Cardinality({e \in 1..Len(js) : js[e] = a - 1})])])

\* max_degree = max(max(max_degree, degrees[i]), degrees[j]) over the pairs,
\* from 0.
MaxDegree(is, js, degrees) ==
  LET seen == {0} \cup {degrees[is[e] + 1] : e \in 1..Len(is)}
                  \cup {degrees[js[e] + 1] : e \in 1..Len(js)}
  IN  CHOOSE d \in seen : \A other \in seen : other <= d

\* L = D - A.
Laplacian(D, A) ==
  AsTuple([a \in 1..Len(D) |-> AsTuple([b \in 1..Len(D) |->
     D[a][b] - A[a][b]])])

\* ComputeErrorBound(view_pairs).  eigs tells what the eigensolver does: its
\* constructor throws "invalid_argument", which leaves the function before
\* lambda2 and alpha_max_ are touched, or eigs.info() is "SUCCESSFUL" or not
\* after eigs.compute().  The function returns nothing.
ComputeErrorBound(self, relative_rotations, eigs) ==
  LET N == self.images_num_
      ids == {relative_rotations[e].first : e \in 1..Len(relative_rotations)}
               \cup {relative_rotations[e].second :
                       e \in 1..Len(relative_rotations)}
      idx == EndpointIndices(relative_rotations, self.view_id_to_index_)
      degrees == Degrees(idx.first, idx.second, N)
      A == AdjacencyMatrix(idx.first, idx.second, N)
      D == DegreeMatrix(idx.first, idx.second, degrees, N)
      max_degree == MaxDegree(idx.first, idx.second, degrees)
      lambda2 == IF eigs = "SUCCESSFUL" THEN "eigs.eigenvalues()[0]" ELSE "0.0"
  IN  [self |-> [self EXCEPT
                   !.view_id_to_index_ = WithInserted(@, ids),
                   !.alpha_max_ = IF eigs = "invalid_argument" THEN @
                                  ELSE ErrorBound(lambda2, max_degree)],
       degrees |-> degrees,
       A |-> A,
       D |-> D,
       L |-> Laplacian(D, A),
       max_degree |-> max_degree,
       eigs |-> eigs,
       log |-> IF eigs \in {"SUCCESSFUL", "invalid_argument"} THEN <<>>
               ELSE <<"Computing Eigenvalue fails">>,
       ret |-> IF eigs = "invalid_argument" THEN "invalid_argument" ELSE "void"]

\* GetErrorBound().
GetErrorBound(self) == self.alpha_max_

\* ------------------------------------------------------------------------
\* GraclusGraph and ComputeNormalizedMinGraphCut (graph/graph_cut.cc).
\* std::vector is a sequence: element k of the code is element k + 1 here;
\* the argument weights is called edge_weights.
\* ------------------------------------------------------------------------
\* A graph before its constructor body has run.
EmptyGraph ==
  [vertex_id_to_idx_ |-> EmptyMap, vertex_idx_to_id_ |-> EmptyMap,
   xadj_ |-> <<>>, adjncy_ |-> <<>>, adjwgt_ |-> <<>>,
   data |-> [nvtxs |-> 0, nedges |-> 0], ok |-> TRUE]

\* GetVertexIdx(id): the index of id and the graph after the call.
GetVertexIdx(self, id) ==
  IF ContainsKey(self.vertex_id_to_idx_, id)
  THEN [self |-> self, idx |-> self.vertex_id_to_idx_[id]]
  ELSE LET idx == Cardinality(DOMAIN self.vertex_id_to_idx_)
       IN  [self |->
              [self EXCEPT
                 !.vertex_id_to_idx_ =
                    AsMap([k \in DOMAIN self.vertex_id_to_idx_ \cup {id} |->
                       IF k = id THEN idx ELSE self.vertex_id_to_idx_[k]]),
                 !.vertex_idx_to_id_ =
                    AsMap([k \in DOMAIN self.vertex_idx_to_id_ \cup {idx} |->
                       IF ContainsKey(self.vertex_idx_to_id_, k)
                       THEN self.vertex_idx_to_id_[k] ELSE id])],
            idx |-> idx]

\* GetVertexId(idx).
GetVertexId(self, idx) == self.vertex_idx_to_id_[idx]

\* adjacency_list[i], an empty vector when operator[] has to create it.
ListAt(adjacency_list, i) ==
  IF ContainsKey(adjacency_list, i) THEN adjacency_list[i] ELSE <<>>

\* list[i].emplace_back(neighbour, weight).
EmplaceBack(adjacency_list, i, neighbour, weight) ==
  AsMap([k \in DOMAIN adjacency_list \cup {i} |->
     IF k = i
     THEN Append(ListAt(adjacency_list, i),
                 [first |-> neighbour, second |-> weight])
     ELSE adjacency_list[k]])

\* An insertion that enters a self-loop once.
EmplacedOnceForLoops(adjacency_list, vertex_idx1, vertex_idx2, weight) ==
  IF vertex_idx1 = vertex_idx2
  THEN EmplaceBack(adjacency_list, vertex_idx1, vertex_idx2, weight)
  ELSE EmplaceBack(EmplaceBack(adjacency_list, vertex_idx1, vertex_idx2, weight),
                   vertex_idx2, vertex_idx1, weight)

\* Lines 27-28: the edge is entered in the lists of both of its ends.
Emplaced(adjacency_list, vertex_idx1, vertex_idx2, weight) ==
  EmplaceBack(EmplaceBack(adjacency_list, vertex_idx1, vertex_idx2, weight),
              vertex_idx2, vertex_idx1, weight)

\* The loop of lines 22-29 over the edges that are left.
RECURSIVE InsertEdges(_, _, _, _)
InsertEdges(self, adjacency_list, edges, edge_weights) ==
  IF edges = <<>>
  THEN [self |-> self, adjacency_list |-> adjacency_list]
  ELSE LET v1 == GetVertexIdx(self, Head(edges).first)
           v2 == GetVertexIdx(v1.self, Head(edges).second)
       IN  InsertEdges(v2.self,
                       Emplaced(adjacency_list, v1.idx, v2.idx, Head(edge_weights)),
                       Tail(edges), Tail(edge_weights))

\* The entries pushed by the loop of lines 36-48 for the vertices i..n-1.
RECURSIVE PushedFrom(_, _, _)
PushedFrom(adjacency_list, i, n) ==
  IF i >= n THEN <<>>
  ELSE ListAt(adjacency_list, i) \o PushedFrom(adjacency_list, i + 1, n)

\* xadj_ after lines 36-50: edge_idx before each vertex, then the final one.
Offsets(adjacency_list, n) ==
  AsTuple([k \in 1..(n + 1) |->
     Len(PushedFrom(adjacency_list, 0, n))
       - Len(PushedFrom(adjacency_list, k - 1, n))])

\* GraclusGraph(edges, edge_weights); ok tells whether every CHECK_EQ held.
GraclusGraph(edges, edge_weights) ==
  IF Len(edges) # Len(edge_weights)
  THEN [EmptyGraph EXCEPT !.ok = FALSE]
  ELSE LET r == InsertEdges(EmptyGraph, EmptyMap, edges, edge_weights)
           n == Cardinality(DOMAIN r.self.vertex_id_to_idx_)
           pushed == PushedFrom(r.adjacency_list, 0, n)
           xadj == Offsets(r.adjacency_list, n)
           adjncy == AsTuple([k \in 1..Len(pushed) |-> pushed[k].first])
           adjwgt == AsTuple([k \in 1..Len(pushed) |-> pushed[k].second])
       IN  [r.self EXCEPT
              !.xadj_ = xadj,
              !.adjncy_ = adjncy,
              !.adjwgt_ = adjwgt,
              !.data = [nvtxs |-> n, nedges |-> 2 * Len(edges)],
              !.ok = /\ Len(pushed) = 2 * Len(edges)
                     /\ Len(xadj) = n + 1
                     /\ Len(adjncy) = 2 * Len(edges)
                     /\ Len(adjwgt) = 2 * Len(edges)]

\* Lines 139-142: labels.emplace(graph.GetVertexId(idx), cut_labels[idx]) for
\* idx = 0, 1, ...; emplace keeps the first value of a key.
LabelsOf(graph, cut_labels) ==
  LET ids == {GetVertexId(graph, idx) : idx \in 0..(Len(cut_labels) - 1)}
      First(id) == CHOOSE idx \in 0..(Len(cut_labels) - 1) :
                     /\ GetVertexId(graph, idx) = id
                     /\ \A other \in 0..(idx - 1) :
                          GetVertexId(graph, other) # id
  IN  AsMap([id \in ids |-> cut_labels[First(id) + 1]])

\* ------------------------------------------------------------------------
\* L1Solver (solver/l1_solver.h)
\* ------------------------------------------------------------------------
\* The constructor: a_ = mat and the factorization of a_^T * a_; factored
\* tells whether linear_solver_.Info() is Success after Compute, solver_calls
\* lists the calls made on linear_solver_ so far.
NewL1Solver(options, mat, compute_ok) ==
  [options_ |-> options,
   a_ |-> mat,
   factored |-> compute_ok /\ IsPositiveDefinite(Gram(mat)),
   solver_calls |-> <<"Compute">>]

\* SetMaxIterations(max_iterations).
SetMaxIterations(self, max_iterations) ==
  [self EXCEPT !.options_.max_num_iterations = max_iterations]

\* A shrinkage that forgets the clamp at zero: vec - kappa.
ShrinkageUnclamped(vec, kappa) ==
  AsTuple([k \in 1..Len(vec) |-> FracSub(vec[k], kappa)])

\* A shrinkage that keeps the positive side only: max(0, vec - kappa).
ShrinkagePositiveSide(vec, kappa) ==
  AsTuple([k \in 1..Len(vec) |-> FracMax(<<0, 1>>, FracSub(vec[k], kappa))])

\* Shrinkage: max(0, vec - kappa) - max(0, -vec - kappa), elementwise.
Shrinkage(vec, kappa) ==
  AsTuple([k \in 1..Len(vec) |->
     FracSub(FracMax(<<0, 1>>, FracSub(vec[k], kappa)),
             FracMax(<<0, 1>>, FracSub(FracNeg(vec[k]), kappa)))])

\* The locals of Solve before the loop: z and u are zero, z_old is not
\* initialized, x is the caller's vector.
SolveLocals(self, rhs, solution) ==
  [rhs |-> rhs,
   x |-> solution,
   z |-> ZeroVector(NumRows(self.a_)),
   u |-> ZeroVector(NumRows(self.a_)),
   z_old |-> UninitVector(NumRows(self.a_)),
   i |-> 0]

\* A loop that runs while i <= options_.max_num_iterations.
L1LoopContinuesInclusive(self, i) == i <= self.options_.max_num_iterations

\* The loop condition i < options_.max_num_iterations.
L1LoopContinues(self, i) == i < self.options_.max_num_iterations

\* An x update that factorizes a_^T * a_ again before it solves.
UpdateXRefactorizing(self, st) ==
  [x |-> LLtSolveExact(Gram(self.a_),
           TransposeTimes(self.a_, VecSub(VecAdd(st.rhs, st.z), st.u))),
   calls |-> <<"Compute", "Solve">>]

\* The x update (line 109): linear_solver_.Solve(a_^T * (rhs + z - u)), with
\* the factorization the constructor computed.
UpdateX(self, st) ==
  [x |-> LLtSolveExact(Gram(self.a_),
           TransposeTimes(self.a_, VecSub(VecAdd(st.rhs, st.z), st.u))),
   calls |-> <<"Solve">>]

\* A test that is satisfied by either residual alone.
ConvergedOnEither(primal_below, dual_below) == primal_below \/ dual_below

\* The convergence test (line 145): r_norm < primal_eps && s_norm < dual_eps.
Converged(primal_below, dual_below) == primal_below /\ dual_below

\* One pass of the loop of Solve (lines 107-148).  how is "failed" when the
\* linear solver reported failure (return), "break" when both residuals are
\* below their tolerances, "next" otherwise.  The norms are kept squared.
ADMMIteration(self, st, solve_ok) ==
  LET A == self.a_
      o == self.options_
      x == UpdateX(self, st).x
      a_times_x == MatTimes(A, x)
      ax_hat == VecAdd(VecScale(o.alpha, a_times_x),
                       VecScale(FracSub(FracOf(1), o.alpha),
                                VecAdd(st.z, st.rhs)))
      z_old == st.z
      z == Shrinkage(VecAdd(VecSub(ax_hat, st.rhs), st.u),
                     Frac(o.rho[2], o.rho[1]))
      u == VecAdd(st.u, VecSub(VecSub(ax_hat, z), st.rhs))
      r_norm_sq == SquaredNorm(VecSub(VecSub(a_times_x, z), st.rhs))
      s_norm_sq == SquaredNorm(VecScale(FracNeg(o.rho),
                                        TransposeTimes(A, VecSub(z, z_old))))
      max_norm_sq == FracMax(SquaredNorm(a_times_x),
                             FracMax(SquaredNorm(z), SquaredNorm(st.rhs)))
      abs_sq == FracMul(o.absolute_tolerance, o.absolute_tolerance)
      rel_sq == FracMul(o.relative_tolerance, o.relative_tolerance)
      primal_abs_sq == FracMul(FracOf(NumRows(A)), abs_sq)
      dual_abs_sq == FracMul(FracOf(NumCols(A)), abs_sq)
      primal_rel_sq == FracMul(rel_sq, max_norm_sq)
      dual_rel_sq ==
        FracMul(rel_sq, SquaredNorm(VecScale(o.rho, TransposeTimes(A, u))))
      primal_below == SqrtLessThanSum(r_norm_sq, primal_abs_sq, primal_rel_sq)
      dual_below == SqrtLessThanSum(s_norm_sq, dual_abs_sq, dual_rel_sq)
      converged == Converged(primal_below, dual_below)
  IN  IF ~solve_ok
      THEN [st |-> [st EXCEPT !.x = UninitVector(NumCols(A))],
            calls |-> UpdateX(self, st).calls,
            line |-> <<>>, how |-> "failed"]
      ELSE [st |-> [rhs |-> st.rhs, x |-> x, z |-> z, u |-> u, z_old |-> z_old,
                    i |-> IF converged THEN st.i ELSE st.i + 1],
            calls |-> UpdateX(self, st).calls,
            line |-> <<[i |-> st.i, r_norm_sq |-> r_norm_sq,
                        s_norm_sq |-> s_norm_sq,
                        primal_below |-> primal_below,
                        dual_below |-> dual_below]>>,
            how |-> IF converged THEN "break" ELSE "next"]

\* ------------------------------------------------------------------------
\* The caller: it fills the two maps, constructs a refiner for them, calls
\* SolveIRLS, and may extend the maps and call again on the same instance.
\* ------------------------------------------------------------------------
HasViewPair(i, j) ==
  \E e \in 1..Len(view_pairs) : view_pairs[e].first = i /\ view_pairs[e].second = j

\* The orders in which an unordered_map with these entries can be iterated:
\* the language leaves the order to the container, and an insertion may
\* rehash it.
IterationOrders(entries) ==
  {AsTuple([k \in 1..Len(entries) |-> entries[order[k]]]) :
     order \in Permutations(1..Len(entries))}

\* global_rotations[id] = the rotation by a ticks, for a new id.
AddRotation(id, a) ==
  /\ id \notin DOMAIN global_rotations
  /\ global_rotations' =
       AsMap([v \in DOMAIN global_rotations \cup {id} |->
                IF v = id THEN AngleAxis(FracOf(a)) ELSE global_rotations[v]])
  /\ UNCHANGED view_pairs

\* view_pairs[ImagePair(i, j)].rotation_2 = the rotation by a ticks, for a new
\* key.
AddViewPair(i, j, a) ==
  /\ i # j
  /\ ~HasViewPair(i, j)
  /\ Len(view_pairs) < MaxEdges
  /\ view_pairs' \in
       IterationOrders(
         Append(view_pairs, [first |-> i, second |-> j,
                             rotation_2 |-> AngleAxis(FracOf(a))]))
  /\ UNCHANGED global_rotations

\* The rotations the caller hands to SolveIRLS are fractions of a tick no finer
\* than 1 / MaxDenominator: those it set itself, and those a call left so.
WithinPrecision(rotations) ==
  \A id \in DOMAIN rotations :
    \A c \in 1..3 : rotations[id][c][2] <= MaxDenominator

NoFresh == [pc |-> "none", self |-> <<>>, rotations |-> <<>>, ret |-> "none"]

\* What the caller has handed to the setters: nothing yet.
NothingSupplied == [map |-> EmptyMap, matrix |-> EmptySparseMatrix, step |-> <<>>]

\* After a call that returned true the caller may extend the maps and call again.
IRLSCallerMayEdit ==
  \/ irls_pc = "new"
  \/ /\ irls_pc = "idle" /\ irls_ret = "true" /\ irls_hist.calls < MaxCalls
     /\ irls_hist.supplied = NothingSupplied
     /\ WithinPrecision(global_rotations)

IRLSAddRotation ==
  /\ IRLSCallerMayEdit
  /\ \E id \in ViewIds, a \in InputAngles : AddRotation(id, a)
  /\ UNCHANGED <<irlsVars, ldVars, l1Vars, ompVars, shrVars, gcVars>>

IRLSAddViewPair ==
  /\ IRLSCallerMayEdit
  /\ \E i \in ViewIds, j \in ViewIds, a \in InputAngles : AddViewPair(i, j, a)
  /\ UNCHANGED <<irlsVars, ldVars, l1Vars, ompVars, shrVars, gcVars>>

\* IRLSRotationLocalRefiner(num_orientations, num_edges, options), with the
\* sizes of the caller's maps.  Resizing to a negative size fails Eigen's
\* assertion.
IRLSConstruct ==
  /\ irls_pc = "new"
  /\ \E options \in IRLSOptions :
       IF DOMAIN global_rotations = {}
       THEN /\ irls_pc' = "aborted"
            /\ refiner' = refiner
            /\ irls_hist' = irls_hist
       ELSE /\ irls_pc' = "idle"
            /\ refiner' = NewRefiner(Cardinality(DOMAIN global_rotations),
                                     Len(view_pairs), options)
            /\ irls_hist' =
                 [irls_hist EXCEPT
                    !.num_orientations = Cardinality(DOMAIN global_rotations)]
  /\ UNCHANGED <<callerVars, irls_i, irls_ret, weights, irls_log, fresh>>
  /\ UNCHANGED <<ldVars, l1Vars, ompVars, shrVars, gcVars>>

\* The index maps a caller prebuilds for its views: the ascending one of
\* ViewIdToAscentIndex and the descending one.
PrebuiltIndexMaps(rotations) ==
  {ViewIdToAscentIndex(rotations),
   AsMap([id \in DOMAIN rotations |->
            Cardinality({other \in DOMAIN rotations : other > id})])}

\* The caller may hand over prebuilt state between the construction and the
\* first call of SolveIRLS: an initial step, or a prebuilt map and matrix, for
\* pairs between views it has rotations for.  A refiner that was handed
\* something is called once.
IRLSCallerMaySupply ==
  /\ irls_pc = "idle"
  /\ irls_hist.calls = 0
  /\ view_pairs # <<>>
  /\ \A e \in 1..Len(view_pairs) :
       {view_pairs[e].first, view_pairs[e].second} \subseteq DOMAIN global_rotations

\* The steps a caller hands over for a refiner of num_orientations views: a
\* quarter turn for every view but one, and a quarter turn for every view (a
\* vector of another size than the constructor's).
InitialSteps(num_orientations) ==
  {AsTuple([idx \in 1..(3 * n) |->
      IF (idx - 1) % 3 = 0 THEN <<1, 1>> ELSE <<0, 1>>]) :
     n \in {num_orientations - 1, num_orientations}}

\* SetInitTangentSpaceStep with a step of the caller: on a refiner that was
\* handed nothing else, with a step of either size, or as the last of the
\* three setters, with a step of the refiner's size.
IRLSSetInitTangentSpaceStep ==
  /\ IRLSCallerMaySupply
  /\ irls_hist.supplied.step = <<>>
  /\ \E step \in InitialSteps(irls_hist.num_orientations) :
       /\ \/ irls_hist.supplied = NothingSupplied
          \/ /\ irls_hist.supplied.map # EmptyMap
             /\ irls_hist.supplied.matrix # EmptySparseMatrix
             /\ Len(step) = Len(refiner.tangent_space_step_)
       /\ refiner' = SetInitTangentSpaceStep(refiner, step)
       /\ irls_hist' = [irls_hist EXCEPT !.supplied.step = step]
  /\ UNCHANGED <<callerVars, irls_pc, irls_i, irls_ret, weights, irls_log, fresh>>
  /\ UNCHANGED <<ldVars, l1Vars, ompVars, shrVars, gcVars>>

\* SetViewIdToIndex with a prebuilt map of the caller's views.
IRLSSetViewIdToIndex ==
  /\ IRLSCallerMaySupply
  /\ irls_hist.supplied.step = <<>>
  /\ irls_hist.supplied.map = EmptyMap
  /\ \E map \in PrebuiltIndexMaps(global_rotations) :
       /\ refiner' = SetViewIdToIndex(refiner, map)
       /\ irls_hist' = [irls_hist EXCEPT !.supplied.map = map]
  /\ UNCHANGED <<callerVars, irls_pc, irls_i, irls_ret, weights, irls_log, fresh>>
  /\ UNCHANGED <<ldVars, l1Vars, ompVars, shrVars, gcVars>>

\* SetSparseMatrix with the matrix of the caller's pairs, prebuilt under the
\* map the refiner holds (the ascending one when it holds none).
IRLSSetSparseMatrix ==
  /\ IRLSCallerMaySupply
  /\ irls_hist.supplied.step = <<>>
  /\ irls_hist.supplied.matrix = EmptySparseMatrix
  /\ \E map \in {IndexMapInUse(refiner, global_rotations)} :
       LET setup == SetupLinearSystem(view_pairs,
                      Cardinality(DOMAIN global_rotations), map)
       IN  /\ setup.ok
           /\ setup.matrix.rows > 0
           /\ refiner' = SetSparseMatrix(refiner, setup.matrix)
           /\ irls_hist' = [irls_hist EXCEPT !.supplied.matrix = setup.matrix]
  /\ UNCHANGED <<callerVars, irls_pc, irls_i, irls_ret, weights, irls_log, fresh>>
  /\ UNCHANGED <<ldVars, l1Vars, ompVars, shrVars, gcVars>>

\* SolveIRLS is called: everything before the loop.
SolveIRLSBegin ==
  /\ irls_pc = "idle"
  /\ irls_hist.calls < MaxCalls
  /\ irls_hist.calls > 0 =>
       irls_ret = "true" /\ irls_hist.supplied = NothingSupplied
  /\ WithinPrecision(global_rotations)
  /\ \E analyze_ok \in BOOLEAN :
       LET Entered(r, f) ==
             /\ irls_pc' = r.pc
             /\ refiner' = r.self
             /\ irls_ret' = r.ret
             /\ irls_log' = r.log
             /\ fresh' = [pc |-> f.pc, self |-> f.self,
                          rotations |-> global_rotations, ret |-> f.ret]
             /\ irls_hist' = [calls |-> irls_hist.calls + 1,
                              entry |-> global_rotations,
                              iterate |-> global_rotations,
                              updates |-> 0,
                              residual |-> <<>>,
                              solver_ok |-> analyze_ok,
                              num_orientations |-> irls_hist.num_orientations,
                              trace |-> r.calls,
                              supplied |-> irls_hist.supplied]
       IN  Entered(SolveIRLSEntry(refiner, view_pairs, global_rotations,
                                  analyze_ok),
                   SolveIRLSEntry(
                     NewRefiner(Cardinality(DOMAIN global_rotations),
                                Len(view_pairs), refiner.options_),
                     view_pairs, global_rotations, analyze_ok))
  /\ irls_i' = 0
  /\ weights' = <<>>
  /\ UNCHANGED <<callerVars, ldVars, l1Vars, ompVars, shrVars, gcVars>>

\* The freshly constructed refiner after a pass that ended as f says.
FreshAfter(f) ==
  [pc |-> CASE f.how \in {"mismatch", "die"} -> "aborted"
            [] f.how = "next" -> "loop"
            [] OTHER -> "idle",
   self |-> f.self,
   rotations |-> f.rotations,
   ret |-> CASE f.how \in {"factorize", "solve"} -> "false"
             [] f.how = "break" -> "true"
             [] OTHER -> "none"]

\* The freshly constructed refiner makes the same pass, while it is in its loop.
FreshIteration(factorize_ok, solve_ok) ==
  IF fresh.pc # "loop"
  THEN fresh
  ELSE IF ~LoopContinues(irls_hist.updates, fresh.self.options_)
  THEN [fresh EXCEPT !.pc = "idle", !.ret = "true"]
  ELSE FreshAfter(SolveIRLSIteration(fresh.self, view_pairs, fresh.rotations,
                                     irls_hist.updates, factorize_ok, solve_ok))

\* In the first call of a refiner that was handed nothing, the fresh refiner
\* is in the very state of the refiner: its pass is the refiner's.
FreshInStep ==
  /\ fresh.pc = "loop"
  /\ irls_hist.calls = 1
  /\ irls_hist.supplied = NothingSupplied
  /\ fresh.rotations = global_rotations
  /\ irls_hist.updates = irls_i

\* One pass of the loop of SolveIRLS.
SolveIRLSStep ==
  /\ irls_pc = "loop"
  /\ LoopContinues(irls_i, refiner.options_)
  /\ \E factorize_ok \in BOOLEAN :
     \E solve_ok \in (IF factorize_ok THEN BOOLEAN ELSE {FALSE}) :
       LET Stepped(r) ==
             LET alive == {id \in DOMAIN global_rotations :
                            ~UpdateDiesAt(refiner.view_id_to_index_,
                                          r.self.tangent_space_step_, id)}
                 updated == r.how \in {"break", "next"}
             IN  /\ refiner' = r.self
                 /\ weights' = r.weights
                 /\ irls_log' = irls_log \o r.log
                 /\ fresh' = IF FreshInStep THEN FreshAfter(r)
                             ELSE FreshIteration(factorize_ok, solve_ok)
                 /\ irls_hist' =
                      [irls_hist EXCEPT
                         !.iterate = IF updated THEN r.rotations ELSE @,
                         !.updates = IF updated THEN @ + 1 ELSE @,
                         !.residual = refiner.tangent_space_residual_,
                         !.solver_ok = @ /\ factorize_ok /\ solve_ok,
                         !.trace = @ \o r.calls]
                 /\ CASE r.how = "mismatch" ->
                           /\ irls_pc' = "aborted"
                           /\ global_rotations' = r.rotations
                           /\ UNCHANGED <<irls_i, irls_ret>>
                      [] r.how \in {"factorize", "solve"} ->
                           /\ irls_pc' = "idle"
                           /\ irls_ret' = "false"
                           /\ global_rotations' = r.rotations
                           /\ UNCHANGED irls_i
                      [] r.how = "die" ->
                           \* the views visited before the abort were updated
                           /\ irls_pc' = "aborted"
                           /\ \E done \in SUBSET alive :
                                global_rotations' =
                                  AsMap([id \in DOMAIN global_rotations |->
                                     IF id \in done
                                     THEN UpdatedRotation(refiner.view_id_to_index_,
                                            r.self.tangent_space_step_,
                                            global_rotations, id)
                                     ELSE global_rotations[id]])
                           /\ UNCHANGED <<irls_i, irls_ret>>
                      [] r.how = "break" ->
                           /\ irls_pc' = "idle"
                           /\ irls_ret' = "true"
                           /\ global_rotations' = r.rotations
                           /\ UNCHANGED irls_i
                      [] OTHER ->
                           /\ irls_pc' = "loop"
                           /\ irls_i' = irls_i + 1
                           /\ global_rotations' = r.rotations
                           /\ UNCHANGED irls_ret
       IN  Stepped(SolveIRLSIteration(refiner, view_pairs, global_rotations,
                                      irls_i, factorize_ok, solve_ok))
  /\ UNCHANGED <<view_pairs, ldVars, l1Vars, ompVars, shrVars, gcVars>>

\* The loop ends at the iteration cap: return true.
SolveIRLSReturn ==
  /\ irls_pc = "loop"
  /\ ~LoopContinues(irls_i, refiner.options_)
  /\ irls_pc' = "idle"
  /\ irls_ret' = "true"
  /\ fresh' = FreshIteration(TRUE, TRUE)
  /\ UNCHANGED <<callerVars, refiner, irls_i, weights, irls_log, irls_hist>>
  /\ UNCHANGED <<ldVars, l1Vars, ompVars, shrVars, gcVars>>

\* ------------------------------------------------------------------------
\* The caller of the Lagrange-dual estimator: it fills the two maps,
\* constructs an estimator for the number of views and calls
\* EstimateRotations once.
\* ------------------------------------------------------------------------
\* EstimateRotations reads only the keys of global_rotations: the caller gives
\* every view the same initial guess, a quarter turn.
InitialGuessAngle == CHOOSE a \in InputAngles : a # 0

\* The views the caller adds, in ascending order, to the views of ViewIds: with
\* them the Laplacian is large enough for the eigensolver.
ExtraViewIds == (Cardinality(ViewIds) + 1)..ncv

LDAddRotation ==
  /\ ld_pc = "new"
  /\ \E id \in ViewIds \cup ExtraViewIds :
       /\ id \in ExtraViewIds =>
            \A lower \in ViewIds \cup ExtraViewIds :
              lower < id => lower \in DOMAIN global_rotations
       /\ AddRotation(id, InitialGuessAngle)
  /\ UNCHANGED <<irlsVars, ldVars, l1Vars, ompVars, shrVars, gcVars>>

LDAddViewPair ==
  /\ ld_pc = "new"
  /\ \E i \in ViewIds, j \in ViewIds, a \in InputAngles : AddViewPair(i, j, a)
  /\ UNCHANGED <<irlsVars, ldVars, l1Vars, ompVars, shrVars, gcVars>>

\* LagrangeDualRotationEstimator(N, 3, options) with N the number of views.
LDConstruct ==
  /\ ld_pc = "new"
  /\ \E solver_type \in SolverTypes :
       estimator' = NewEstimator(Cardinality(DOMAIN global_rotations), 3,
                                 [solver_type |-> solver_type])
  /\ ld_pc' = "idle"
  /\ UNCHANGED <<callerVars, irlsVars, l1Vars, ompVars, shrVars, gcVars, ld_ret, ld_hist, ld_bound>>

\* SetViewIdToIndex with a prebuilt map of the caller's views, between the
\* construction and the call of EstimateRotations.
LDSetViewIdToIndex ==
  /\ ld_pc = "idle"
  /\ \E map \in PrebuiltIndexMaps(global_rotations) :
       estimator' = LagrangeDualSetViewIdToIndex(estimator, map)
  /\ UNCHANGED <<callerVars, irlsVars, l1Vars, ompVars, shrVars, gcVars, ld_pc, ld_ret, ld_hist, ld_bound>>

\* SetRAOption with options of the driver, between the construction and the
\* call of EstimateRotations.
LDSetRAOption ==
  /\ ld_pc = "idle"
  /\ \E solver_type \in SolverTypes :
       estimator' = SetRAOption(estimator, [solver_type |-> solver_type])
  /\ UNCHANGED <<callerVars, irlsVars, l1Vars, ompVars, shrVars, gcVars, ld_pc, ld_ret, ld_hist, ld_bound>>

\* What dereferencing the null solver pointer can do: the process is killed,
\* or the build, taking the default case for unreachable, runs a backend.
NullDereferenceOutcomes == {"crash", "run"}

\* EstimateRotations(view_pairs, &global_rotations), the whole call.
LDEstimateRotations ==
  /\ ld_pc = "idle"
  /\ LET N == estimator.images_num_
         map == IF DOMAIN estimator.view_id_to_index_ = {}
                THEN ViewIdToAscentIndex(global_rotations)
                ELSE estimator.view_id_to_index_
         fill == FillinRelativeGraph(view_pairs, map, N)
         solver == CreateSDPSolver(N, estimator.dim_, estimator.options_)
         filled == [estimator EXCEPT
                      !.view_id_to_index_ = fill.map,
                      !.R_ = [size |-> estimator.dim_ * N, block |-> fill.block]]
         Hist(backend) == [calls |-> ld_hist.calls + 1,
                           entry |-> global_rotations,
                           backend |-> backend,
                           adj_edges |-> IF Len(view_pairs) = 0 \/ N <= 0
                                         THEN EmptyMap ELSE fill.adj_edges,
                           converted |-> EmptyMap]
     IN  IF Len(view_pairs) = 0 \/ N <= 0
         THEN /\ ld_pc' = "aborted"
              /\ ld_hist' = Hist("none")
              /\ UNCHANGED <<estimator, ld_ret, global_rotations>>
         ELSE IF ~fill.ok
         THEN /\ ld_pc' = "aborted"
              /\ estimator' = [estimator EXCEPT !.view_id_to_index_ = fill.map]
              /\ ld_hist' = Hist("none")
              /\ UNCHANGED <<ld_ret, global_rotations>>
         ELSE \E outcome \in (IF solver = NullSolver
                               THEN NullDereferenceOutcomes ELSE {"run"}) :
                IF outcome = "crash"
                THEN /\ ld_pc' = "crashed"
                     /\ estimator' = filled
                     /\ ld_hist' = Hist("null")
                     /\ UNCHANGED <<ld_ret, global_rotations>>
                ELSE \E converged \in BOOLEAN, Y \in SDPSolutions(N) :
                       LET got == RetrieveRotations(Y, global_rotations, fill.map)
                       IN  /\ estimator' = [filled EXCEPT
                                              !.view_id_to_index_ = got.map,
                                              !.Y_ = Y]
                           /\ ld_hist' = [Hist(IF solver = NullSolver THEN "null"
                                               ELSE IF converged THEN "converged"
                                               ELSE "failed")
                                            EXCEPT !.converted = got.converted]
                           /\ IF got.ok
                              THEN /\ ld_pc' = "returned"
                                   /\ ld_ret' = "true"
                                   /\ global_rotations' = got.rotations
                              ELSE /\ ld_pc' = "aborted"
                                   /\ ld_ret' = ld_ret
                                   /\ \E done \in SUBSET
                                          {id \in DOMAIN global_rotations :
                                             BlockInRange(Y, got.map[id])} :
                                        global_rotations' =
                                          AsMap([id \in DOMAIN global_rotations |->
                                             IF id \in done
                                             THEN RetrievedRotation(Y, got.map[id])
                                             ELSE global_rotations[id]])
  /\ UNCHANGED <<view_pairs, irlsVars, l1Vars, ompVars, shrVars, gcVars, ld_bound>>

NoBound == [calls |-> 0, degrees |-> <<>>, A |-> <<>>, D |-> <<>>, L |-> <<>>,
            max_degree |-> 0, eigs |-> "none", log |-> <<>>, ret |-> "none"]

\* ComputeErrorBound(view_pairs) on an estimator whose EstimateRotations has
\* returned (every endpoint then has an index below images_num_), once.
LDComputeErrorBound ==
  /\ ld_pc = "returned"
  /\ ld_bound.calls = 0
  /\ \E eigs \in EigsOutcomes(estimator.images_num_) :
       LET Left(r) ==
             /\ estimator' = r.self
             /\ ld_bound' = [calls |-> ld_bound.calls + 1, degrees |-> r.degrees,
                             A |-> r.A, D |-> r.D, L |-> r.L,
                             max_degree |-> r.max_degree, eigs |-> r.eigs,
                             log |-> r.log, ret |-> r.ret]
       IN  Left(ComputeErrorBound(estimator, view_pairs, eigs))
  /\ UNCHANGED <<callerVars, irlsVars, l1Vars, ompVars, shrVars, gcVars, ld_pc, ld_ret, ld_hist>>

\* ------------------------------------------------------------------------
\* The caller of the L1 solver: it constructs a solver for a matrix and calls
\* Solve once with a right-hand side and a start vector.
\* ------------------------------------------------------------------------
IdentityMatrix2 == <<<<1, 0>>, <<0, 1>>>>

\* The matrices of the driver: the identity in one and two dimensions, a
\* column of ones, a diagonal matrix, and a matrix of rank one.
L1Matrices ==
  {<<<<1>>>>, IdentityMatrix2, <<<<1>>, <<1>>>>, <<<<2, 0>>, <<0, 1>>>>,
   <<<<1, 0>>, <<1, 0>>>>}

L1Values == {-1, 0, 2}     \* the entries of the right-hand sides
L1StartValues == {0, 1}    \* the entries of the caller's x

L1Options ==
  [max_num_iterations : {0, MaxL1Iterations},
   rho : {<<1, 1>>, <<2, 1>>},
   alpha : {<<1, 1>>, <<3, 2>>},
   absolute_tolerance : {<<1, 10>>},
   relative_tolerance : {<<1, 10>>}]

\* L1Solver(options, mat): CHECK_EQ(linear_solver_.Info(), Eigen::Success).
L1Construct ==
  /\ l1_pc = "new"
  /\ \E options \in L1Options, mat \in L1Matrices, compute_ok \in BOOLEAN :
       /\ l1_solver' = NewL1Solver(options, mat, compute_ok)
       /\ l1_pc' = IF l1_solver'.factored THEN "idle" ELSE "aborted"
  /\ UNCHANGED <<callerVars, irlsVars, ldVars, ompVars, shrVars, gcVars, l1_call, l1_log, l1_hist>>

\* SetMaxIterations between the construction and the call of Solve.
L1SetMaxIterations ==
  /\ l1_pc = "idle"
  /\ \E max_iterations \in 0..MaxL1Iterations :
       l1_solver' = SetMaxIterations(l1_solver, max_iterations)
  /\ UNCHANGED <<callerVars, irlsVars, ldVars, ompVars, shrVars, gcVars, l1_pc, l1_call, l1_log, l1_hist>>

\* Solve(rhs, &x) is called: everything before the loop.
L1SolveBegin ==
  /\ l1_pc = "idle"
  /\ \E rhs \in [1..NumRows(l1_solver.a_) -> L1Values],
        start \in L1StartValues :
       LET solution == AsTuple([k \in 1..NumCols(l1_solver.a_) |-> FracOf(start)])
       IN  /\ l1_call' = SolveLocals(l1_solver,
                            AsTuple([k \in 1..NumRows(l1_solver.a_) |->
                                       FracOf(rhs[k])]), solution)
           /\ l1_hist' = [entry |-> solution, solver_ok |-> TRUE, passes |-> 0]
  /\ l1_pc' = "loop"
  /\ l1_log' = <<>>
  /\ UNCHANGED <<callerVars, irlsVars, ldVars, ompVars, shrVars, gcVars, l1_solver>>

\* One pass of the loop of Solve.
L1Iterate ==
  /\ l1_pc = "loop"
  /\ L1LoopContinues(l1_solver, l1_call.i)
  /\ \E solve_ok \in BOOLEAN :
       LET r == ADMMIteration(l1_solver, l1_call, solve_ok)
       IN  /\ l1_call' = r.st
           /\ l1_log' = l1_log \o r.line
           /\ l1_pc' = IF r.how = "next" THEN "loop" ELSE "returned"
           /\ l1_hist' = [l1_hist EXCEPT !.solver_ok = @ /\ solve_ok,
                                         !.passes = @ + 1]
           /\ l1_solver' = [l1_solver EXCEPT !.solver_calls = @ \o r.calls]
  /\ UNCHANGED <<callerVars, irlsVars, ldVars, ompVars, shrVars, gcVars>>

\* The loop ends at the iteration cap.
L1Return ==
  /\ l1_pc = "loop"
  /\ ~L1LoopContinues(l1_solver, l1_call.i)
  /\ l1_pc' = "returned"
  /\ UNCHANGED <<callerVars, irlsVars, ldVars, ompVars, shrVars, gcVars, l1_solver, l1_call, l1_log, l1_hist>>

\* ------------------------------------------------------------------------
\* The parallel loop over the edges (lines 84-90 of SolveIRLS): the threads
\* take the iterations k in any order and interleave at every access to the
\* shared weights array.
\* ------------------------------------------------------------------------
OmpResiduals == {0, 1, 2}   \* x components of the residuals, in ticks

\* The loop is entered with num_edges, tangent_space_residual_, sigma and
\* options_.num_threads; weights was just allocated.
OmpEnter ==
  /\ omp_pc = "new"
  /\ \E num_edges \in 1..MaxEdges, sigma \in Sigmas,
        num_threads \in 1..MaxThreads :
       \E errors \in [1..num_edges -> OmpResiduals] :
         /\ omp_in' =
              [num_edges |-> num_edges,
               tangent_space_residual_ |->
                 AsTuple([idx \in 1..(3 * num_edges) |->
                    IF (idx - 1) % 3 = 0
                    THEN FracOf(errors[((idx - 1) \div 3) + 1])
                    ELSE <<0, 1>>]),
               sigma |-> sigma,
               num_threads |-> num_threads]
         /\ omp_todo' = 0..(num_edges - 1)
         /\ omp_threads' = AsTuple([t \in 1..num_threads |-> IdleThread])
         /\ omp_weights' = UninitVector(3 * num_edges)
  /\ omp_pc' = "parallel"
  /\ UNCHANGED <<omp_access, omp_overlapped>>
  /\ UNCHANGED <<callerVars, irlsVars, ldVars, l1Vars, shrVars, gcVars>>

\* Another thread is inside an iteration.
OthersBusy(t) ==
  \E other \in 1..Len(omp_threads) : other # t /\ omp_threads[other].k # -1

\* A thread starts an iteration k and computes its private w (lines 86-88).
OmpBegin ==
  /\ omp_pc = "parallel"
  /\ \E t \in 1..Len(omp_threads), k \in omp_todo :
       LET r == WeightOfIteration(k, omp_in.tangent_space_residual_, omp_in.sigma)
       IN  /\ omp_threads[t].k = -1
           /\ omp_threads' =
                [omp_threads EXCEPT ![t] = [k |-> k, written |-> 0, w |-> r.w]]
           /\ omp_todo' = omp_todo \ {k}
           /\ omp_access' = omp_access \cup r.accesses
           /\ omp_overlapped' = (omp_overlapped \/ OthersBusy(t))
  /\ UNCHANGED <<omp_pc, omp_in, omp_weights>>
  /\ UNCHANGED <<callerVars, irlsVars, ldVars, l1Vars, shrVars, gcVars>>

\* A thread writes the next element of weights.segment<3>(3 * k) (line 89).
OmpWrite ==
  /\ omp_pc = "parallel"
  /\ \E t \in 1..Len(omp_threads) :
       LET th == omp_threads[t]
           index == WeightIndex(th.k, th.written)
       IN  /\ th.k # -1
           /\ omp_weights' = [omp_weights EXCEPT ![index + 1] = th.w]
           /\ omp_access' =
                omp_access \cup {Access(th.k, "write", "weights", index)}
           /\ omp_threads' =
                [omp_threads EXCEPT ![t] =
                   IF th.written = 2 THEN IdleThread
                   ELSE [th EXCEPT !.written = @ + 1]]
           /\ omp_overlapped' = (omp_overlapped \/ OthersBusy(t))
  /\ UNCHANGED <<omp_pc, omp_in, omp_todo>>
  /\ UNCHANGED <<callerVars, irlsVars, ldVars, l1Vars, shrVars, gcVars>>

\* The end of the parallel region: every iteration was run to its end.
OmpJoin ==
  /\ omp_pc = "parallel"
  /\ omp_todo = {}
  /\ \A t \in 1..Len(omp_threads) : omp_threads[t].k = -1
  /\ omp_pc' = "done"
  /\ UNCHANGED <<omp_in, omp_todo, omp_threads, omp_weights, omp_access,
                 omp_overlapped>>
  /\ UNCHANGED <<callerVars, irlsVars, ldVars, l1Vars, shrVars, gcVars>>

\* ------------------------------------------------------------------------
\* Shrinkage applied to a vector and a threshold of the caller's choice.
\* ------------------------------------------------------------------------
\* The entries of vec and the thresholds kappa >= 0.
ShrinkageEntries ==
  {Frac(-2, 1), Frac(-1, 1), Frac(-1, 2), Frac(0, 1), Frac(1, 2), Frac(1, 1),
   Frac(2, 1)}

ShrinkageKappas == {Frac(0, 1), Frac(1, 2), Frac(1, 1), Frac(2, 1)}

\* Shrinkage(vec, kappa) is called.
ShrinkageCall ==
  /\ shr_pc = "new"
  /\ \E size \in 1..MaxShrinkageSize, kappa \in ShrinkageKappas :
       \E vec \in [1..size -> ShrinkageEntries] :
         shr_in' = [vec |-> AsTuple(vec), kappa |-> kappa]
  /\ shr_pc' = "called"
  /\ UNCHANGED shr_out
  /\ UNCHANGED <<callerVars, irlsVars, ldVars, l1Vars, ompVars, gcVars>>

\* Shrinkage returns.
ShrinkageReturn ==
  /\ shr_pc = "called"
  /\ shr_out' = Shrinkage(shr_in.vec, shr_in.kappa)
  /\ shr_pc' = "returned"
  /\ UNCHANGED shr_in
  /\ UNCHANGED <<callerVars, irlsVars, ldVars, l1Vars, ompVars, gcVars>>

\* ------------------------------------------------------------------------
\* ComputeNormalizedMinGraphCut(edges, weights, num_parts) and its caller.
\* ------------------------------------------------------------------------
GraphVertexIds == {3, 5, 7}   \* the vertex ids the caller uses
GraphWeights == {1, 2}        \* the edge weights the caller uses
GraphNumParts == {2}          \* num_parts

\* The call up to line 116: GraclusGraph graph(edges, weights), for an edge
\* list and a weight list of the same length.
GraphCutConstruct ==
  /\ gc_pc = "new"
  /\ \E size \in 0..MaxGraphEdges, num_parts \in GraphNumParts :
       \E firsts \in [1..size -> GraphVertexIds],
          seconds \in [1..size -> GraphVertexIds],
          edge_weights \in [1..size -> GraphWeights] :
         LET edges == AsTuple([k \in 1..size |->
                         [first |-> firsts[k], second |-> seconds[k]]])
         IN  /\ gc_in' = [edges |-> edges, weights |-> AsTuple(edge_weights),
                          num_parts |-> num_parts]
             /\ gc_graph' = GraclusGraph(edges, AsTuple(edge_weights))
             /\ gc_pc' = IF gc_graph'.ok THEN "constructed" ELSE "aborted"
  /\ UNCHANGED <<gc_cut_labels, gc_labels>>
  /\ UNCHANGED <<callerVars, irlsVars, ldVars, l1Vars, ompVars, shrVars>>

\* Lines 118-144: the partitioner fills cut_labels with a part for every
\* vertex, and the labels are returned by vertex id.
GraphCutPartition ==
  /\ gc_pc = "constructed"
  /\ \E cut_labels \in [1..gc_graph.data.nvtxs -> 0..(gc_in.num_parts - 1)] :
       /\ gc_cut_labels' = AsTuple(cut_labels)
       /\ gc_labels' = LabelsOf(gc_graph, AsTuple(cut_labels))
  /\ gc_pc' = "returned"
  /\ UNCHANGED <<gc_in, gc_graph>>
  /\ UNCHANGED <<callerVars, irlsVars, ldVars, l1Vars, ompVars, shrVars>>

vars == <<callerVars, irlsVars, ldVars, l1Vars, ompVars, shrVars, gcVars>>

InitCaller ==
  /\ view_pairs = <<>>
  /\ global_rotations = EmptyMap

InitIRLS ==
  /\ refiner = NewRefiner(1, 0, [max_num_irls_iterations |-> 0,
                                  irls_loss_parameter_sigma |-> 1,
                                  irls_step_convergence_threshold |-> 1])
  /\ irls_pc = "new"
  /\ irls_i = 0
  /\ irls_ret = "none"
  /\ weights = <<>>
  /\ irls_log = <<>>
  /\ irls_hist = [calls |-> 0, entry |-> EmptyMap, iterate |-> EmptyMap,
                  updates |-> 0, residual |-> <<>>, solver_ok |-> TRUE,
                  num_orientations |-> 1, trace |-> <<>>,
                  supplied |-> NothingSupplied]
  /\ fresh = NoFresh

InitLD ==
  /\ estimator = NewEstimator(0, 3, [solver_type |-> "RBR_BCM"])
  /\ ld_pc = "new"
  /\ ld_ret = "none"
  /\ ld_hist = [calls |-> 0, entry |-> EmptyMap, backend |-> "none",
                adj_edges |-> EmptyMap, converted |-> EmptyMap]
  /\ ld_bound = NoBound

InitL1 ==
  /\ l1_solver = [options_ |-> [max_num_iterations |-> 0, rho |-> <<1, 1>>,
                                alpha |-> <<1, 1>>,
                                absolute_tolerance |-> <<1, 10>>,
                                relative_tolerance |-> <<1, 10>>],
                  a_ |-> <<<<1>>>>, factored |-> FALSE, solver_calls |-> <<>>]
  /\ l1_pc = "new"
  /\ l1_call = [rhs |-> <<>>, x |-> <<>>, z |-> <<>>, u |-> <<>>,
                z_old |-> <<>>, i |-> 0]
  /\ l1_log = <<>>
  /\ l1_hist = [entry |-> <<>>, solver_ok |-> TRUE, passes |-> 0]

InitOmp ==
  /\ omp_pc = "new"
  /\ omp_in = [num_edges |-> 0, tangent_space_residual_ |-> <<>>,
               sigma |-> NarrowSigma, num_threads |-> 1]
  /\ omp_todo = {}
  /\ omp_threads = <<>>
  /\ omp_weights = <<>>
  /\ omp_access = {}
  /\ omp_overlapped = FALSE

InitShrinkage ==
  /\ shr_pc = "new"
  /\ shr_in = [vec |-> <<>>, kappa |-> <<0, 1>>]
  /\ shr_out = <<>>

InitGraphCut ==
  /\ gc_pc = "new"
  /\ gc_in = [edges |-> <<>>, weights |-> <<>>, num_parts |-> 2]
  /\ gc_graph = EmptyGraph
  /\ gc_cut_labels = <<>>
  /\ gc_labels = EmptyMap

Init ==
  /\ InitCaller /\ InitIRLS /\ InitLD /\ InitL1 /\ InitOmp /\ InitShrinkage
  /\ InitGraphCut

Next ==
  \/ IRLSAddRotation
  \/ IRLSAddViewPair
  \/ IRLSConstruct
  \/ SolveIRLSBegin
  \/ SolveIRLSStep
  \/ SolveIRLSReturn

Spec == Init /\ [][Next]_vars

\* The refiner with a caller that may hand over prebuilt state first.
NextHybrid ==
  \/ IRLSAddRotation
  \/ IRLSAddViewPair
  \/ IRLSConstruct
  \/ IRLSSetInitTangentSpaceStep
  \/ IRLSSetViewIdToIndex
  \/ IRLSSetSparseMatrix
  \/ SolveIRLSBegin
  \/ SolveIRLSStep
  \/ SolveIRLSReturn

SpecHybrid == Init /\ [][NextHybrid]_vars

\* The Lagrange-dual estimator and its caller.
NextLD ==
  \/ LDAddRotation
  \/ LDAddViewPair
  \/ LDConstruct
  \/ LDSetViewIdToIndex
  \/ LDSetRAOption
  \/ LDEstimateRotations
  \/ LDComputeErrorBound

SpecLD == Init /\ [][NextLD]_vars

\* The L1 solver and its caller.
NextL1 ==
  \/ L1Construct
  \/ L1SetMaxIterations
  \/ L1SolveBegin
  \/ L1Iterate
  \/ L1Return

SpecL1 == Init /\ [][NextL1]_vars

\* The parallel weight loop of SolveIRLS.
NextOmp ==
  \/ OmpEnter
  \/ OmpBegin
  \/ OmpWrite
  \/ OmpJoin

SpecOmp == Init /\ [][NextOmp]_vars

\* Shrinkage on its own.
NextShrinkage ==
  \/ ShrinkageCall
  \/ ShrinkageReturn

SpecShrinkage == Init /\ [][NextShrinkage]_vars

\* ComputeNormalizedMinGraphCut.
NextGraphCut ==
  \/ GraphCutConstruct
  \/ GraphCutPartition

SpecGraphCut == Init /\ [][NextGraphCut]_vars

\* ------------------------------------------------------------------------
\* Properties of SolveIRLS
\* ------------------------------------------------------------------------
\* The views whose dense index is 0 in the refiner's map.
AnchorViews ==
  {id \in DOMAIN refiner.view_id_to_index_ : refiner.view_id_to_index_[id] = 0}

ErrorLines == {k \in 1..Len(irls_log) : irls_log[k].kind = "error"}

\* The iteration lines whose logged average step is below the threshold.
BelowThresholdLines ==
  {k \in 1..Len(irls_log) :
     /\ irls_log[k].kind = "iter"
     /\ irls_log[k].avg[2] > 0
     /\ irls_log[k].avg[1] <
          refiner.options_.irls_step_convergence_threshold * irls_log[k].avg[2]}

\* The rotations of the views the call was entered with are those of the last
\* completed update.
HoldsLastIterate ==
  \A id \in DOMAIN irls_hist.iterate :
    global_rotations[id] = irls_hist.iterate[id]

\* C1: in every state of a SolveIRLS call (running, returned true, returned
\* false or aborted) the view whose dense index is 0 has the rotation it had
\* when the call was entered.
C1_AnchorKeepsEntryRotation ==
  irls_hist.calls > 0 =>
    \A id \in AnchorViews \cap DOMAIN global_rotations :
      /\ id \in DOMAIN irls_hist.entry
      /\ global_rotations[id] = irls_hist.entry[id]

\* C1 witness: a call returned true after moving another view, and the anchor
\* view's rotation is not the identity.
C1_Witness ==
  /\ irls_pc = "idle"
  /\ irls_ret = "true"
  /\ \E id \in AnchorViews : irls_hist.entry[id] # Zero3
  /\ \E other \in DOMAIN irls_hist.entry :
       global_rotations[other] # irls_hist.entry[other]

\* C4: SolveIRLS has returned false exactly when it logged the failure of
\* AnalyzePattern, Factorize or Solve; that line is the last one; after a
\* failure of AnalyzePattern the rotations are those on entry; after a failure
\* of Factorize or Solve in pass k the rotations are those of the update of
\* pass k - 1 and no further pass has run.
C4_FailureOutcome ==
  irls_hist.calls > 0 =>
    /\ (irls_ret = "false") <=> (ErrorLines # {})
    /\ irls_ret = "false" =>
         /\ irls_pc = "idle"
         /\ ErrorLines = {Len(irls_log)}
         /\ Len(irls_log) = irls_hist.updates + 1
         /\ IF irls_log[Len(irls_log)].operation = "AnalyzePattern"
            THEN /\ irls_hist.updates = 0
                 /\ global_rotations = irls_hist.entry
            ELSE /\ irls_log[Len(irls_log)].operation \in {"Factorize", "Solve"}
                 /\ global_rotations = irls_hist.iterate

\* C4 witness: Solve failed in the second pass, after a first pass that moved
\* a view.
C4_Witness ==
  /\ irls_ret = "false"
  /\ irls_log # <<>>
  /\ irls_log[Len(irls_log)] = ErrorLine("Solve")
  /\ irls_hist.updates >= 1
  /\ global_rotations # irls_hist.entry

\* C5: SolveIRLS makes at most max_num_irls_iterations passes, each pass either
\* leaves the loop or advances i; the loop is left at the first pass whose
\* average step is below the threshold, with true and the current iterate; at
\* the cap, without such a pass, it returns true with the current iterate too.
C5_Termination ==
  irls_hist.calls > 0 /\ irls_pc \in {"loop", "idle"} =>
    /\ irls_i <= refiner.options_.max_num_irls_iterations
    /\ irls_hist.updates <= refiner.options_.max_num_irls_iterations
    /\ \A k \in 1..Len(irls_log) :
         irls_log[k].kind = "iter" => irls_log[k].i = k - 1
    /\ irls_pc = "loop" =>
         /\ irls_i = irls_hist.updates
         /\ Len(irls_log) = irls_i
         /\ BelowThresholdLines = {}
    /\ BelowThresholdLines # {} =>
         /\ BelowThresholdLines = {Len(irls_log)}
         /\ irls_pc = "idle"
         /\ irls_ret = "true"
         /\ HoldsLastIterate
    /\ (irls_pc = "idle" /\ irls_ret = "true" /\ BelowThresholdLines = {}) =>
         /\ irls_hist.updates = refiner.options_.max_num_irls_iterations
         /\ HoldsLastIterate

\* C5 witness: the call returned true at the cap, after passes that moved a
\* view, without a step below the threshold.
C5_Witness ==
  /\ irls_pc = "idle"
  /\ irls_ret = "true"
  /\ BelowThresholdLines = {}
  /\ irls_hist.updates = refiner.options_.max_num_irls_iterations
  /\ irls_hist.iterate # irls_hist.entry

\* C6 as stated: whenever a call on a used instance has ended, it has ended as
\* the same call on a freshly constructed instance ends: the same abort or
\* return value and, on return, the same rotations.
C6_SameAsFreshInstance ==
  (irls_hist.calls > 1 /\ irls_pc \in {"idle", "aborted"}) =>
    /\ fresh.pc = irls_pc
    /\ fresh.ret = irls_ret
    /\ irls_pc = "idle" => HoldsLastIterate /\ fresh.rotations = irls_hist.iterate

\* The first call of an instance was given identity rotations only.
IdentityInput ==
  /\ irls_hist.calls = 1
  /\ \A id \in DOMAIN irls_hist.entry : irls_hist.entry[id] = Zero3
  /\ \A e \in 1..Len(view_pairs) : view_pairs[e].rotation_2 = Zero3

RECURSIVE ReachableViews(_, _)
ReachableViews(seen, relative_rotations) ==
  LET more == {id \in ViewIds :
                 \E e \in 1..Len(relative_rotations) :
                   \/ relative_rotations[e].first \in seen
                        /\ relative_rotations[e].second = id
                   \/ relative_rotations[e].second \in seen
                        /\ relative_rotations[e].first = id}
  IN  IF more \subseteq seen THEN seen
      ELSE ReachableViews(seen \cup more, relative_rotations)

\* The graph on the views of the call is connected.
ConnectedInput ==
  \A id \in DOMAIN irls_hist.entry :
    DOMAIN irls_hist.entry \subseteq ReachableViews({id}, view_pairs)

AllZero(v) == \A idx \in 1..Len(v) : v[idx] = <<0, 1>>

\* C7 as stated: on identity input a call that has ended, the solver having
\* reported no failure of its own, returned true, with zero residuals, a zero
\* step and identity rotations.
C7_IdentityReturnsTrue ==
  (IdentityInput /\ irls_pc = "idle" /\ irls_hist.solver_ok) =>
    /\ irls_ret = "true"
    /\ AllZero(refiner.tangent_space_residual_)
    /\ AllZero(refiner.tangent_space_step_)
    /\ \A id \in DOMAIN irls_hist.entry : global_rotations[id] = Zero3

\* C7, amended: on identity input every rotation stays the identity in every
\* state of the call; once computed the residuals are zero and every solved
\* step is zero; and the call returns true when the graph is connected and the
\* solver reports success at every step.
C7_IdentityIdempotence ==
  IdentityInput =>
    /\ \A id \in DOMAIN irls_hist.entry : global_rotations[id] = Zero3
    /\ (irls_pc = "loop" \/ irls_hist.updates > 0) =>
         AllZero(refiner.tangent_space_residual_)
    /\ irls_hist.updates > 0 => AllZero(refiner.tangent_space_step_)
    /\ (irls_pc = "idle" /\ irls_hist.solver_ok /\ ConnectedInput) =>
         irls_ret = "true" /\ irls_hist.updates > 0

\* C7 witness: identity input on three connected views, returned true after a
\* pass.
C7_Witness ==
  /\ IdentityInput
  /\ ConnectedInput
  /\ Cardinality(DOMAIN irls_hist.entry) = 3
  /\ irls_pc = "idle"
  /\ irls_ret = "true"
  /\ irls_hist.updates > 0

\* C9: the weights of a pass are positive, equal sigma / (|e|^2 + sigma^2)^2
\* for the residual e of their edge, are the same on the three rows of an
\* edge, and do not increase with |e|: |e1| <= |e2| implies w1 >= w2.
C9_WeightsMonotone ==
  weights # <<>> =>
    LET sigma == refiner.options_.irls_loss_parameter_sigma
        num_edges == Len(weights) \div 3
        Mag(e) == SquaredNorm3(Segment3(irls_hist.residual, e - 1))
        W(e) == weights[3 * (e - 1) + 1]
    IN  /\ Len(weights) = 3 * num_edges
        /\ irls_pc = "loop" => num_edges = Len(view_pairs)
        /\ \A e \in 1..num_edges :
             /\ W(e)[1] > 0 /\ W(e)[2] > 0
             /\ weights[3 * (e - 1) + 2] = W(e)
             /\ weights[3 * (e - 1) + 3] = W(e)
             /\ FracMul(W(e), FracMul(FracAdd(Mag(e), FracOf(sigma * sigma)),
                                      FracAdd(Mag(e), FracOf(sigma * sigma))))
                  = FracOf(sigma)
        /\ \A e1, e2 \in 1..num_edges :
             FracLeq(Mag(e1), Mag(e2)) => FracLeq(W(e2), W(e1))

\* C9 witness: a pass weighted two edges of different residual magnitude.
C9_Witness ==
  /\ Len(weights) = 6
  /\ FracLess(SquaredNorm3(Segment3(irls_hist.residual, 0)),
               SquaredNorm3(Segment3(irls_hist.residual, 1)))
  /\ FracLess(weights[4], weights[1])

\* ------------------------------------------------------------------------
\* Properties of EstimateRotations of the Lagrange-dual estimator
\* ------------------------------------------------------------------------
\* The input of the call breaks the contract: no view pair, an endpoint
\* without a rotation, or fewer than two views.
LDInvalidInput ==
  \/ view_pairs = <<>>
  \/ \E e \in 1..Len(view_pairs) :
       \/ view_pairs[e].first \notin DOMAIN ld_hist.entry
       \/ view_pairs[e].second \notin DOMAIN ld_hist.entry
  \/ Cardinality(DOMAIN ld_hist.entry) < 2

\* C2 as stated: after EstimateRotations has returned (from a valid input,
\* with a backend that converged), the view at dense index
\* 0 has the rotation it had when the call was entered.
C2_AnchorKeepsEntryRotationLD ==
  (ld_pc = "returned" /\ ld_hist.backend = "converged" /\ ~LDInvalidInput) =>
    \A id \in DOMAIN ld_hist.entry :
      estimator.view_id_to_index_[id] = 0 =>
        global_rotations[id] = ld_hist.entry[id]

\* C3 as stated: on a valid input, when no backend could be created or the
\* backend failed,
\* EstimateRotations returns false, and it returns true only after a backend
\* run that succeeded.
C3_FalseOnNumericalFailure ==
  (ld_hist.calls > 0 /\ ~LDInvalidInput) =>
    /\ ld_hist.backend \in {"null", "failed"} =>
         ld_pc = "returned" /\ ld_ret = "false"
    /\ ld_ret = "true" => ld_hist.backend = "converged"

\* C10 as stated, for the Lagrange-dual estimator with a supported solver
\* type: a call with invalid input aborts, and the rotations are those on
\* entry.
C10_InvalidInputAborts ==
  (ld_hist.calls > 0 /\ LDInvalidInput /\ ld_hist.backend # "null") =>
    ld_pc = "aborted" /\ global_rotations = ld_hist.entry

\* ------------------------------------------------------------------------
\* Properties of L1Solver::Solve
\* ------------------------------------------------------------------------
IsIdentityMatrix(A) ==
  /\ NumRows(A) = NumCols(A)
  /\ \A r \in 1..NumRows(A), c \in 1..NumCols(A) :
       A[r][c] = IF r = c THEN 1 ELSE 0

\* C8: with A = I, max_num_iterations >= 1 and a linear solver that reports
\* success, the first pass leaves x = b, z = 0, u = 0 with both residuals 0
\* and ends the loop: Solve returns x = b after exactly one pass, for every
\* b, rho, alpha and start vector of the driver.
C8_IdentityReturnsRhs ==
  (/\ IsIdentityMatrix(l1_solver.a_)
   /\ l1_solver.options_.max_num_iterations >= 1
   /\ l1_hist.solver_ok
   /\ l1_hist.passes >= 1) =>
    /\ l1_pc = "returned"
    /\ l1_hist.passes = 1
    /\ l1_call.x = l1_call.rhs
    /\ l1_call.z = ZeroVector(NumRows(l1_solver.a_))
    /\ l1_call.u = ZeroVector(NumRows(l1_solver.a_))
    /\ Len(l1_log) = 1
    /\ l1_log[1].r_norm_sq = <<0, 1>>
    /\ l1_log[1].s_norm_sq = <<0, 1>>

\* C8 witness: Solve returned on the 2 x 2 identity with a right-hand side
\* that is neither zero nor the start vector, rho = 2 and alpha = 3/2.
C8_Witness ==
  /\ l1_pc = "returned"
  /\ l1_solver.a_ = IdentityMatrix2
  /\ l1_solver.options_.rho = <<2, 1>>
  /\ l1_solver.options_.alpha = <<3, 2>>
  /\ l1_hist.solver_ok
  /\ l1_hist.passes = 1
  /\ l1_call.rhs = <<<<-1, 1>>, <<2, 1>>>>
  /\ l1_call.x = l1_call.rhs
  /\ l1_hist.entry # l1_call.rhs

\* C11: Solve makes at most max_num_iterations passes; before the first pass
\* x is the caller's vector and z and u are zero; with max_num_iterations = 0
\* Solve returns without a pass and x is the caller's vector.
C11_IterationBudget ==
  l1_pc \in {"loop", "returned"} =>
    /\ l1_hist.passes <= l1_solver.options_.max_num_iterations
    /\ l1_call.i <= l1_solver.options_.max_num_iterations
    /\ l1_call.i <= l1_hist.passes
    /\ Len(l1_log) <= l1_hist.passes
    /\ l1_hist.passes = 0 =>
         /\ l1_call.x = l1_hist.entry
         /\ l1_call.z = ZeroVector(NumRows(l1_solver.a_))
         /\ l1_call.u = ZeroVector(NumRows(l1_solver.a_))
    /\ (l1_pc = "returned" /\ l1_solver.options_.max_num_iterations = 0) =>
         l1_hist.passes = 0 /\ l1_call.x = l1_hist.entry

\* C11 witness: Solve returned with max_num_iterations = 0 and the caller's
\* nonzero x, which differs from the solution of the system.
C11_Witness ==
  /\ l1_pc = "returned"
  /\ l1_solver.options_.max_num_iterations = 0
  /\ l1_solver.a_ = IdentityMatrix2
  /\ l1_hist.entry = <<<<1, 1>>, <<1, 1>>>>
  /\ l1_call.rhs = <<<<2, 1>>, <<-1, 1>>>>
  /\ l1_call.x = l1_hist.entry

\* The calls of kind made on linear_solver_.
SolverCallsOf(kind) ==
  {k \in 1..Len(l1_solver.solver_calls) : l1_solver.solver_calls[k] = kind}

\* C12: once the constructor has run, a_^T * a_ was factorized exactly once,
\* as the first call on the linear solver; construction has aborted exactly
\* when that factorization did not report success, and then no Solve ever
\* runs; every pass of Solve adds one Solve call and no factorization.
C12_FactorizedOnce ==
  l1_pc # "new" =>
    /\ SolverCallsOf("Compute") = {1}
    /\ (l1_pc = "aborted") <=> ~l1_solver.factored
    /\ l1_pc = "aborted" =>
         /\ l1_solver.solver_calls = <<"Compute">>
         /\ l1_hist.passes = 0
         /\ l1_log = <<>>
    /\ l1_pc = "idle" => l1_solver.solver_calls = <<"Compute">>
    /\ l1_pc \in {"loop", "returned"} =>
         /\ Len(l1_solver.solver_calls) = 1 + l1_hist.passes
         /\ SolverCallsOf("Solve") = 2..(1 + l1_hist.passes)

\* C12 witness: Solve returned after two passes on a matrix that is not the
\* identity; the linear solver saw Compute, Solve, Solve.
C12_Witness ==
  /\ l1_pc = "returned"
  /\ ~IsIdentityMatrix(l1_solver.a_)
  /\ l1_hist.passes = 2
  /\ l1_solver.solver_calls = <<"Compute", "Solve", "Solve">>

\* ------------------------------------------------------------------------
\* Properties of ComputeErrorBound
\* ------------------------------------------------------------------------
\* ComputeErrorBound ran after a call whose input was valid and whose backend
\* converged.
BoundComputed ==
  ld_bound.calls > 0 /\ ~LDInvalidInput /\ ld_hist.backend = "converged"

\* C13 as stated: when the eigensolver did not converge, ComputeErrorBound
\* reports a failure, and the bound GetErrorBound returns was not computed
\* with lambda2 replaced by 0.
C13_EigenFailureReported ==
  (BoundComputed /\ ld_bound.eigs = "NOT_CONVERGING") =>
    /\ ld_bound.ret = "failure"
    /\ GetErrorBound(estimator).lambda2 # "0.0"

\* The graph on the views of the Lagrange-dual call is connected.
LDConnectedInput ==
  \A id \in DOMAIN ld_hist.entry :
    DOMAIN ld_hist.entry \subseteq ReachableViews({id}, view_pairs)

\* The number of view pairs with the view of dense index k as an endpoint.
VertexDegree(k) ==
  Cardinality({e \in 1..Len(view_pairs) :
     \/ estimator.view_id_to_index_[view_pairs[e].first] = k
     \/ estimator.view_id_to_index_[view_pairs[e].second] = k})

\* The views of dense indices a and b are the endpoints of a view pair.
IsEdge(a, b) ==
  \E e \in 1..Len(view_pairs) :
    LET i == estimator.view_id_to_index_[view_pairs[e].first]
        j == estimator.view_id_to_index_[view_pairs[e].second]
    IN  (i = a /\ j = b) \/ (i = b /\ j = a)

\* No two view pairs join the same two views.
LDSimpleGraph ==
  \A e1 \in 1..Len(view_pairs), e2 \in 1..Len(view_pairs) :
    (view_pairs[e1].first = view_pairs[e2].second
       /\ view_pairs[e1].second = view_pairs[e2].first) => FALSE

\* C14 as stated: for a connected graph (one view pair per edge) the matrix L
\* of ComputeErrorBound has the vertex degrees on its diagonal, -1 for every
\* edge and 0 elsewhere, its rows sum to 0, and max_degree is the largest
\* vertex degree.
C14_LaplacianOfGraph ==
  (BoundComputed /\ LDConnectedInput /\ LDSimpleGraph) =>
    LET N == estimator.images_num_
    IN  /\ \A a \in 1..N : ld_bound.L[a][a] = VertexDegree(a - 1)
        /\ \A a \in 1..N, b \in 1..N :
             a # b => ld_bound.L[a][b] = IF IsEdge(a - 1, b - 1) THEN -1 ELSE 0
        /\ \A a \in 1..N : SeqSum(ld_bound.L[a]) = 0
        /\ \A a \in 1..N : VertexDegree(a - 1) <= ld_bound.max_degree
        /\ \E a \in 1..N : VertexDegree(a - 1) = ld_bound.max_degree

\* ------------------------------------------------------------------------
\* Properties of FillinRelativeGraph and RetrieveRotations
\* ------------------------------------------------------------------------
\* EstimateRotations was called with valid input and went past
\* FillinRelativeGraph.
LDFilled == ld_hist.calls > 0 /\ ~LDInvalidInput /\ ld_pc # "aborted"

\* The indices listed under index a in adj_edges.
AdjacentTo(a) ==
  IF a \in DOMAIN ld_hist.adj_edges
  THEN {ld_hist.adj_edges[a][k] : k \in 1..Len(ld_hist.adj_edges[a])}
  ELSE {}

\* The statement of C15 about the blocks of R_ and about adj_edges.
BlocksOfEdges ==
  LET N == estimator.images_num_
      B == estimator.R_.block
      idx == estimator.view_id_to_index_
  IN  /\ \A e \in 1..Len(view_pairs) :
           LET i == idx[view_pairs[e].first]
               j == idx[view_pairs[e].second]
               R_ij == AngleAxisToRotationMatrix(view_pairs[e].rotation_2)
           IN  /\ B[i + 1][j + 1] = Transpose3(R_ij)
               /\ B[j + 1][i + 1] = R_ij
      /\ \A a \in 1..N, b \in 1..N :
           ~IsEdge(a - 1, b - 1) => B[a][b] = ZeroMat3
      /\ \A a \in 1..N : B[a][a] = ZeroMat3
      /\ \A a \in 1..N, b \in 1..N : B[a][b] = Transpose3(B[b][a])
      /\ \A a \in 0..(N - 1), b \in 0..(N - 1) :
           (b \in AdjacentTo(a)) <=> (a \in AdjacentTo(b))
      /\ \A a \in 0..(N - 1), b \in 0..(N - 1) :
           (b \in AdjacentTo(a)) <=> IsEdge(a, b)

\* C15 as stated: after FillinRelativeGraph on valid input, for every view
\* pair the (idx(i), idx(j)) block of R_ is R_ij^T and the (idx(j), idx(i))
\* block is R_ij, blocks without an edge and the block diagonal are zero, R_
\* is symmetric and adj_edges is symmetric.  It fails when two view pairs join
\* the same two views: setFromTriplets adds up their blocks, where the
\* assignment of the source's comment would leave one.
C15_BlocksOfEveryEdge == LDFilled => BlocksOfEdges

\* C16: after EstimateRotations has returned, for every view the matrix that
\* was converted to axis-angle is the transpose of the view's block of Y_,
\* negated exactly when the determinant of that transpose is negative; its
\* determinant is not negative; the view's rotation is its conversion; and
\* global_rotations has exactly the ids it had on entry.
C16_DeterminantFixup ==
  ld_pc = "returned" =>
    /\ DOMAIN global_rotations = DOMAIN ld_hist.entry
    /\ DOMAIN ld_hist.converted = DOMAIN ld_hist.entry
    /\ \A id \in DOMAIN ld_hist.entry :
         LET i == estimator.view_id_to_index_[id]
             T == Transpose3(estimator.Y_[i + 1])
             M == ld_hist.converted[id]
         IN  /\ Det3(T) < 0 => M = NegMat3(T)
             /\ Det3(T) >= 0 => M = T
             /\ Det3(M) >= 0
             /\ global_rotations[id] = RotationMatrixToAngleAxis(M)

\* C16 witness: a call returned whose solution has blocks of negative
\* determinant, not all the same, and a view was given a quarter turn.
C16_Witness ==
  /\ ld_pc = "returned"
  /\ Cardinality(DOMAIN ld_hist.entry) = 3
  /\ \A k \in 1..Len(estimator.Y_) : Det3(estimator.Y_[k]) < 0
  /\ \E k \in 1..Len(estimator.Y_) : estimator.Y_[k] # estimator.Y_[1]
  /\ \E id \in DOMAIN global_rotations : global_rotations[id] # Zero3

\* ------------------------------------------------------------------------
\* Properties of the parallel weight loop
\* ------------------------------------------------------------------------
\* C17: in every state of the parallel loop, under every schedule, iteration k
\* has written only weights[3k..3k+2] and read only
\* tangent_space_residual_[3k..3k+2] and sigma; no element accessed by two
\* iterations was written by either; and after the loop the weights are those
\* of the sequential loop, whatever the schedule and the number of threads.
C17_RaceFree ==
  /\ \A a \in omp_access :
       /\ a.kind = "write" =>
            a.array = "weights" /\ a.index \in (3 * a.iter)..(3 * a.iter + 2)
       /\ a.kind = "read" =>
            \/ a.array = "sigma"
            \/ /\ a.array = "tangent_space_residual_"
               /\ a.index \in (3 * a.iter)..(3 * a.iter + 2)
  /\ \A a \in omp_access, b \in omp_access :
       (a.iter # b.iter /\ a.array = b.array /\ a.index = b.index) =>
         (a.kind = "read" /\ b.kind = "read")
  /\ omp_pc = "done" =>
       omp_weights = ComputeWeights(omp_in.tangent_space_residual_,
                                    omp_in.num_edges, omp_in.sigma)

\* C17 witness: the loop over two edges of different residual ended after two
\* threads had been inside iterations at the same time.
C17_Witness ==
  /\ omp_pc = "done"
  /\ omp_overlapped
  /\ omp_in.num_edges = 2
  /\ omp_in.num_threads = 2
  /\ omp_weights[1] # omp_weights[4]

\* ------------------------------------------------------------------------
\* The average step size of SolveIRLS
\* ------------------------------------------------------------------------
\* The last line of the log is the one of a completed pass: its avg is the
\* value that was compared with the threshold, and tangent_space_step_ is the
\* step it was computed from.
StepMeasured ==
  /\ irls_log # <<>>
  /\ irls_log[Len(irls_log)].kind = "iter"

MeasuredAverage == irls_log[Len(irls_log)].avg

\* num_orientations, the argument the refiner was constructed with.
NumViews == irls_hist.num_orientations

\* The sum of the norms of the 3-vector steps, from the step vector itself.
RECURSIVE NormSumFrom(_, _)
NormSumFrom(step, k) ==
  IF 3 * k + 3 > Len(step) THEN <<0, 1>>
  ELSE FracAdd(Norm3(Segment3(step, k)), NormSumFrom(step, k + 1))

\* C18 as stated: the compared value is the sum of the norms of the steps
\* divided by the number of views V, and it is a number (the divisor is not 0).
C18_AverageOverViews ==
  StepMeasured =>
    /\ MeasuredAverage[2] > 0
    /\ FracMul(MeasuredAverage, FracOf(NumViews)) =
         NormSumFrom(refiner.tangent_space_step_, 0)

\* C18 amended: the compared value is the sum of the norms of the steps divided
\* by V - 1, the number of views that are not held constant, and it is a
\* number (V - 1 is not 0 in any pass that reaches the test).
C18_AverageOverSteps ==
  StepMeasured =>
    /\ NumViews - 1 > 0
    /\ MeasuredAverage[2] > 0
    /\ FracMul(MeasuredAverage, FracOf(NumViews - 1)) =
         NormSumFrom(refiner.tangent_space_step_, 0)

\* C18 witness: a pass over three views whose step was not zero was measured.
C18_Witness ==
  /\ StepMeasured
  /\ NumViews = 3
  /\ MeasuredAverage[1] > 0

\* ------------------------------------------------------------------------
\* The order of the ADMM updates and the stopping rule of Solve
\* ------------------------------------------------------------------------
\* y-hat of a pass, from the x it computed and the z it started with.
YHatOf(x_new, z_start) ==
  VecAdd(VecScale(l1_solver.options_.alpha, MatTimes(l1_solver.a_, x_new)),
         VecScale(FracSub(FracOf(1), l1_solver.options_.alpha),
                  VecAdd(z_start, l1_call.rhs)))

\* The step is a pass of the loop whose linear solve succeeded.
PassCompleted == Len(l1_log') = Len(l1_log) + 1

\* The updates of a completed pass: x solves the normal equations for the z
\* and u the pass started with, y-hat is formed from that x and the old z,
\* z_old takes the old z, z is the shrinkage of y-hat - b + old u, and u adds
\* y-hat - new z - b.
UpdatesInOrder ==
  PassCompleted =>
    /\ MatTimes(Gram(l1_solver.a_), l1_call'.x) =
         TransposeTimes(l1_solver.a_,
                        VecSub(VecAdd(l1_call.rhs, l1_call.z), l1_call.u))
    /\ l1_call'.z_old = l1_call.z
    /\ l1_hist.passes = 0 => l1_call'.z_old = ZeroVector(NumRows(l1_solver.a_))
    /\ l1_call'.z =
         Shrinkage(VecAdd(VecSub(YHatOf(l1_call'.x, l1_call.z), l1_call.rhs),
                          l1_call.u),
                   Frac(l1_solver.options_.rho[2], l1_solver.options_.rho[1]))
    /\ l1_call'.u =
         VecAdd(l1_call.u,
                VecSub(VecSub(YHatOf(l1_call'.x, l1_call.z), l1_call'.z),
                       l1_call.rhs))

\* Both residuals of the logged pass k were strictly below their tolerances.
BothBelow(k) == l1_log[k].primal_below /\ l1_log[k].dual_below

\* The stopping rule, while the linear solver reports success: the residuals
\* of the last pass are those of the state, with z_old the z of the start of
\* that pass; no pass before the last had both residuals below the
\* tolerances; the loop has ended before the cap exactly when the last pass
\* had both.
StoppedOnBoth ==
  (l1_pc \in {"loop", "returned"} /\ l1_hist.solver_ok) =>
    /\ Len(l1_log) = l1_hist.passes
    /\ \A k \in 1..(Len(l1_log) - 1) : ~BothBelow(k)
    /\ l1_log # <<>> =>
         /\ l1_log[Len(l1_log)].r_norm_sq =
              SquaredNorm(VecSub(VecSub(MatTimes(l1_solver.a_, l1_call.x),
                                        l1_call.z), l1_call.rhs))
         /\ l1_log[Len(l1_log)].s_norm_sq =
              SquaredNorm(VecScale(l1_solver.options_.rho,
                            TransposeTimes(l1_solver.a_,
                                           VecSub(l1_call.z, l1_call.z_old))))
         /\ BothBelow(Len(l1_log)) <=>
              (l1_pc = "returned"
                 /\ l1_call.i < l1_solver.options_.max_num_iterations)
    /\ l1_log = <<>> =>
         (l1_pc = "returned" =>
            l1_call.i >= l1_solver.options_.max_num_iterations)

\* C19: every completed pass of Solve makes its updates in the order x,
\* y-hat, z_old <- z, z, u, so that z_old is the z of the start of the pass
\* (zero in the first); the loop ends before the iteration cap only at the
\* first pass in which the primal residual is strictly below eps_primal and
\* the dual residual strictly below eps_dual, never on one of them alone.
C19_OrderAndStoppingRule == [][UpdatesInOrder]_vars /\ []StoppedOnBoth

\* C19 witness: the first pass had exactly one residual below its tolerance
\* and the loop went on with a nonzero z; the second pass had both and ended
\* the loop before the cap.
C19_Witness ==
  /\ l1_pc = "returned"
  /\ l1_hist.solver_ok
  /\ Len(l1_log) = 2
  /\ l1_log[1].primal_below # l1_log[1].dual_below
  /\ BothBelow(2)
  /\ l1_call.i < l1_solver.options_.max_num_iterations
  /\ l1_call.z_old # ZeroVector(NumRows(l1_solver.a_))

\* ------------------------------------------------------------------------
\* Properties of Shrinkage
\* ------------------------------------------------------------------------
\* sign(v) * max(|v| - kappa, 0).
SoftThreshold(v, kappa) ==
  LET m == FracMax(FracSub(FracAbs(v), kappa), <<0, 1>>)
  IN  IF v[1] > 0 THEN m ELSE IF v[1] < 0 THEN FracNeg(m) ELSE <<0, 1>>

\* C20: for every vector v and every kappa >= 0, Shrinkage(v, kappa) is
\* sign(v) * max(|v| - kappa, 0) in every element; the element is 0 when
\* |v| <= kappa, Shrinkage(-v, kappa) = -Shrinkage(v, kappa), and no element
\* is larger in absolute value than the element of v.
C20_ShrinkageIsSoftThreshold ==
  shr_pc = "returned" =>
    /\ Len(shr_out) = Len(shr_in.vec)
    /\ \A k \in 1..Len(shr_in.vec) :
         /\ shr_out[k] = SoftThreshold(shr_in.vec[k], shr_in.kappa)
         /\ FracLeq(FracAbs(shr_in.vec[k]), shr_in.kappa) =>
              shr_out[k] = <<0, 1>>
         /\ FracLeq(FracAbs(shr_out[k]), FracAbs(shr_in.vec[k]))
    /\ Shrinkage(AsTuple([k \in 1..Len(shr_in.vec) |-> FracNeg(shr_in.vec[k])]),
                 shr_in.kappa) =
         AsTuple([k \in 1..Len(shr_out) |-> FracNeg(shr_out[k])])

\* C20 witness: Shrinkage returned for a vector with an element above kappa
\* and an element below -kappa, kappa > 0: one is pulled down, the other up.
C20_Witness ==
  /\ shr_pc = "returned"
  /\ shr_in.kappa = <<1, 2>>
  /\ shr_in.vec = <<<<2, 1>>, <<-1, 1>>>>
  /\ shr_out = <<<<3, 2>>, <<-1, 2>>>>

\* ------------------------------------------------------------------------
\* The order of the calls SolveIRLS makes
\* ------------------------------------------------------------------------
\* The positions of the calls of op in the trace of the current call.
CallsOf(op) ==
  {k \in 1..Len(irls_hist.trace) : irls_hist.trace[k].op = op}

\* The call at position k was op and reported success.
Succeeded(k, op) ==
  /\ k \in 1..Len(irls_hist.trace)
  /\ irls_hist.trace[k] = Call(op, TRUE)

\* SolveIRLS got as far as analyzing the pattern in the current call.
PatternAnalyzed == irls_hist.calls > 0 /\ CallsOf("AnalyzePattern") # {}

\* C21: in every call of SolveIRLS the pattern is analyzed exactly once,
\* before every Factorize; the passes are Factorize, Solve, update of the
\* rotations, residuals, in that order: one Factorize per pass started, a
\* Solve only right after a Factorize that succeeded, and the rotations are
\* updated (and the residuals recomputed after them) only right after a Solve
\* that succeeded; an index map or a sparse matrix handed to SetViewIdToIndex
\* or SetSparseMatrix is the one the refiner holds in and after the call, and
\* the call does not run ViewIdToAscentIndex or SetupLinearSystem for it.
C21_FactorizationProtocol ==
  irls_hist.calls > 0 =>
    /\ Cardinality(CallsOf("AnalyzePattern")) <= 1
    /\ irls_pc = "loop" => PatternAnalyzed
    /\ \A k \in CallsOf("Factorize") :
         /\ \E a \in CallsOf("AnalyzePattern") : a < k /\ Succeeded(a, "AnalyzePattern")
         /\ Succeeded(k - 1, "ComputeResiduals")
    /\ \A k \in CallsOf("Solve") : Succeeded(k - 1, "Factorize")
    /\ \A k \in CallsOf("UpdateGlobalRotations") :
         Succeeded(k - 1, "Solve") /\ Succeeded(k - 2, "Factorize")
    /\ \A k \in CallsOf("ComputeResiduals") :
         \/ Succeeded(k - 1, "AnalyzePattern")
         \/ Succeeded(k - 1, "UpdateGlobalRotations")
    /\ Cardinality({k \in CallsOf("UpdateGlobalRotations") :
                      irls_hist.trace[k].ok}) = irls_hist.updates
    /\ Cardinality(CallsOf("Solve")) <= Cardinality(CallsOf("Factorize"))
    /\ Cardinality(CallsOf("Factorize")) <= irls_hist.updates + 1
    /\ irls_hist.supplied.map # EmptyMap =>
         /\ refiner.view_id_to_index_ = irls_hist.supplied.map
         /\ CallsOf("ViewIdToAscentIndex") = {}
    /\ irls_hist.supplied.matrix # EmptySparseMatrix =>
         /\ refiner.sparse_matrix_ = irls_hist.supplied.matrix
         /\ CallsOf("SetupLinearSystem") = {}

\* C21 witness: SolveIRLS returned true after two passes with an index map
\* that is not the ascending one and a sparse matrix, both handed over by the
\* caller; neither was rebuilt.
C21_Witness ==
  /\ irls_pc = "idle"
  /\ irls_ret = "true"
  /\ irls_hist.updates = 2
  /\ irls_hist.supplied.map # EmptyMap
  /\ irls_hist.supplied.map # ViewIdToAscentIndex(global_rotations)
  /\ irls_hist.supplied.matrix # EmptySparseMatrix
  /\ Cardinality(CallsOf("AnalyzePattern")) = 1
  /\ Cardinality(CallsOf("Factorize")) = 2
  /\ Cardinality(CallsOf("Solve")) = 2

\* ------------------------------------------------------------------------
\* Properties of GraclusGraph and ComputeNormalizedMinGraphCut
\* ------------------------------------------------------------------------
\* The vertex ids of the edge list, and the ends of the edges in the order
\* the constructor looks at them: first, second, first, second, ...
GraphIds ==
  {gc_in.edges[e].first : e \in 1..Len(gc_in.edges)}
    \cup {gc_in.edges[e].second : e \in 1..Len(gc_in.edges)}

EndAt(p) ==
  IF p % 2 = 1 THEN gc_in.edges[(p + 1) \div 2].first
  ELSE gc_in.edges[p \div 2].second

FirstSeen(id) ==
  CHOOSE p \in 1..(2 * Len(gc_in.edges)) :
    EndAt(p) = id /\ \A q \in 1..(p - 1) : EndAt(q) # id

\* How often the edge list joins the vertex of index i to the vertex of index
\* j with weight w, seen from i: a self-loop is seen from both of its ends.
TimesJoined(i, j, w) ==
  LET idx == gc_graph.vertex_id_to_idx_
  IN  Cardinality({e \in 1..Len(gc_in.edges) :
         /\ idx[gc_in.edges[e].first] = i
         /\ idx[gc_in.edges[e].second] = j
         /\ gc_in.weights[e] = w})
      + Cardinality({e \in 1..Len(gc_in.edges) :
         /\ idx[gc_in.edges[e].second] = i
         /\ idx[gc_in.edges[e].first] = j
         /\ gc_in.weights[e] = w})

\* How often the slice of vertex i lists the neighbour j with weight w.
TimesListed(i, j, w) ==
  Cardinality({p \in (gc_graph.xadj_[i + 1] + 1)..gc_graph.xadj_[i + 2] :
                 gc_graph.adjncy_[p] = j /\ gc_graph.adjwgt_[p] = w})

\* C22: for every edge list with a weight list of the same length, repeated
\* edges and self-loops included, the constructor's assertions hold; the
\* vertex ids get the indices 0..n-1 in the order they are first seen and
\* GetVertexId(GetVertexIdx(id)) = id; xadj_ has n + 1 entries, starts at 0,
\* does not decrease and ends at 2 * |edges|, the length of adjncy_ and
\* adjwgt_; the slice of vertex i lists exactly its neighbours with their
\* weights; and ComputeNormalizedMinGraphCut returns one label for every
\* distinct vertex id, the one the partitioner gave to its index.
C22_GraclusGraphWellFormed ==
  gc_pc # "new" =>
    LET n == Cardinality(GraphIds)
        E == Len(gc_in.edges)
        idx == gc_graph.vertex_id_to_idx_
    IN  /\ gc_pc # "aborted"
        /\ gc_graph.ok
        /\ DOMAIN idx = GraphIds
        /\ {idx[id] : id \in GraphIds} = 0..(n - 1)
        /\ \A a \in GraphIds, b \in GraphIds :
             (idx[a] < idx[b]) <=> (FirstSeen(a) < FirstSeen(b))
        /\ \A id \in GraphIds :
             /\ GetVertexIdx(gc_graph, id).idx = idx[id]
             /\ GetVertexIdx(gc_graph, id).self = gc_graph
             /\ GetVertexId(gc_graph, idx[id]) = id
        /\ gc_graph.data.nvtxs = n
        /\ Len(gc_graph.xadj_) = n + 1
        /\ Len(gc_graph.adjncy_) = 2 * E
        /\ Len(gc_graph.adjwgt_) = 2 * E
        /\ gc_graph.xadj_[1] = 0
        /\ gc_graph.xadj_[n + 1] = 2 * E
        /\ \A i \in 1..n : gc_graph.xadj_[i] <= gc_graph.xadj_[i + 1]
        /\ \A i \in 0..(n - 1), j \in 0..(n - 1), w \in GraphWeights :
             TimesListed(i, j, w) = TimesJoined(i, j, w)
        /\ \A p \in 1..(2 * E) : gc_graph.adjncy_[p] \in 0..(n - 1)
        /\ gc_pc = "returned" =>
             /\ DOMAIN gc_labels = GraphIds
             /\ \A id \in GraphIds : gc_labels[id] = gc_cut_labels[idx[id] + 1]

\* C22 witness: the call returned for a self-loop on 7 followed by an edge
\* from 3 to 7: 7 got index 0 and lists itself twice and 3 once, and the two
\* vertices got different labels.
C22_Witness ==
  /\ gc_pc = "returned"
  /\ gc_in.edges = <<[first |-> 7, second |-> 7], [first |-> 3, second |-> 7]>>
  /\ gc_in.weights = <<2, 1>>
  /\ gc_graph.xadj_ = <<0, 3, 4>>
  /\ gc_graph.adjncy_ = <<0, 0, 1, 0>>
  /\ gc_graph.adjwgt_ = <<2, 2, 1, 1>>
  /\ gc_labels[7] # gc_labels[3]

====
